---- MODULE Spec2Model ----
(***************************************************************************)
(* A model of the Scheme interpreter of src/src: the driver loop of        *)
(* main.cpp (REPL), the syntax-to-expression compiler of parser.cpp        *)
(* (List::parse and the literal parsers) and the tree-walking evaluator of *)
(* evaluation.cpp (one eval per Expr class).                               *)
(*                                                                         *)
(* Shared, mutable C++ objects are modelled by a heap: `cells' holds the   *)
(* AssocList nodes (an Assoc is the index of a node, 0 the empty list) and *)
(* `pairs' the Pair cells (a Pair value carries the index of its cell).    *)
(* Nodes and cells are never reclaimed, so an index is never reused.       *)
(* Evaluation threads a store [cells, pairs, out] where `out' is what has  *)
(* been written to std::cout.                                              *)
(***************************************************************************)
EXTENDS Integers, Sequences, FiniteSets, TLC

VARIABLES
    global_env,    \* REPL's Assoc global_env
    heap,          \* the AssocList nodes and Pair cells allocated so far
    cout,          \* what has been written to std::cout
    running,       \* the while loop of REPL has not been left
    log,           \* the forms read so far, each with its outcome
    binaryOrder,   \* which operand of a Binary node this build evaluates first
    signedOverflow, \* what an int operation whose result does not fit does in this build
    ONLINE_JUDGE,  \* whether the build defines ONLINE_JUDGE
    walk           \* the activation of IsList::evalRator being executed, if any

vars == <<global_env, heap, cout, running, log, binaryOrder, signedOverflow, ONLINE_JUDGE, walk>>

-----------------------------------------------------------------------------
(* Bounds of the model *)

\* number of top-level forms the reader delivers in one session
MaxForms == 3

\* number of top-level forms of a session that replays the spec's define examples
MaxExampleForms == 4

\* number of top-level forms of a session made of generated forms
MaxGeneratedForms == 1

\* number of operands of a generated and/or form
MaxOperands == 2

\* width of the machine int, scaled down from the host's 32 bits
IntBits == 8

-----------------------------------------------------------------------------
(* Syntax: the reader's output (syntax.hpp is consumed, not modelled) *)

Number(n) == [s |-> "Number", n |-> n]

RationalSyntax(a, b) == [s |-> "RationalSyntax", numerator |-> a, denominator |-> b]

SymbolSyntax(x) == [s |-> "SymbolSyntax", x |-> x]

StringSyntax(x) == [s |-> "StringSyntax", x |-> x]

TrueSyntax == [s |-> "TrueSyntax"]

FalseSyntax == [s |-> "FalseSyntax"]

List(stxs) == [s |-> "List", stxs |-> stxs]

-----------------------------------------------------------------------------
(* Values *)

IntegerV(n) == [t |-> "V_INT", n |-> n]

RationalV(a, b) == [t |-> "V_RATIONAL", numerator |-> a, denominator |-> b]

StringV(x) == [t |-> "V_STRING", s |-> x]

SymbolV(x) == [t |-> "V_SYM", s |-> x]

BooleanV(b) == [t |-> "V_BOOL", b |-> b]

NullV == [t |-> "V_NULL"]

VoidV == [t |-> "V_VOID"]

TerminateV == [t |-> "V_TERMINATE"]

\* a Pair value is a shared pointer to the cell heap.pairs[a]
PairRef(a) == [t |-> "V_PAIR", a |-> a]

ProcedureV(x, e, env) == [t |-> "V_PROC", parameters |-> x, e |-> e, env |-> env]

\* the null Value pointer find() returns for an unbound name
NullPtr == [t |-> "nullptr"]

-----------------------------------------------------------------------------
(* Expressions: the parser's output *)

Fixnum(n) == [k |-> "Fixnum", n |-> n]

RationalNum(a, b) == [k |-> "RationalNum", numerator |-> a, denominator |-> b]

StringExpr(x) == [k |-> "StringExpr", s |-> x]

True == [k |-> "True"]

False == [k |-> "False"]

MakeVoid == [k |-> "MakeVoid"]

Exit == [k |-> "Exit"]

Var(x) == [k |-> "Var", x |-> x]

Unary(op, rand) == [k |-> "Unary", op |-> op, rand |-> rand]

Binary(op, rand1, rand2) == [k |-> "Binary", op |-> op, rand1 |-> rand1, rand2 |-> rand2]

Variadic(op, rands) == [k |-> "Variadic", op |-> op, rands |-> rands]

AndVar(rands) == [k |-> "AndVar", rands |-> rands]

OrVar(rands) == [k |-> "OrVar", rands |-> rands]

Quote(stx) == [k |-> "Quote", s |-> stx]

Begin(es) == [k |-> "Begin", es |-> es]

If(c, a, b) == [k |-> "If", cond |-> c, conseq |-> a, alter |-> b]

Cond(clauses) == [k |-> "Cond", clauses |-> clauses]

Lambda(x, e) == [k |-> "Lambda", x |-> x, e |-> e]

Apply(rator, rand) == [k |-> "Apply", rator |-> rator, rand |-> rand]

Define(var, e) == [k |-> "Define", var |-> var, e |-> e]

Let(bind, body) == [k |-> "Let", bind |-> bind, body |-> body]

Letrec(bind, body) == [k |-> "Letrec", bind |-> bind, body |-> body]

Set(var, e) == [k |-> "Set", var |-> var, e |-> e]

-----------------------------------------------------------------------------
(* The environment: a chain of AssocList nodes with mutable value cells *)

\* the empty association list
empty == 0

RECURSIVE find(_, _, _)
\* the value of the innermost binding of x in the chain env, or the null pointer
find(x, env, st) ==
    IF env = 0 THEN NullPtr
    ELSE IF st.cells[env].x = x THEN st.cells[env].v
    ELSE find(x, st.cells[env].next, st)

\* a new node in front of env; no existing node changes
extend(x, v, env, st) ==
    [env |-> Len(st.cells) + 1,
     st  |-> [st EXCEPT !.cells = Append(@, [x |-> x, v |-> v, next |-> env])]]

RECURSIVE lookupCell(_, _, _)
\* the index of the innermost node that binds x, 0 when there is none
lookupCell(x, env, st) ==
    IF env = 0 THEN 0
    ELSE IF st.cells[env].x = x THEN env
    ELSE lookupCell(x, st.cells[env].next, st)

\* in-place update of the innermost binding of x; fails when x is unbound
modify(x, v, env, st) ==
    LET c == lookupCell(x, env, st) IN
    IF c = 0 THEN [err |-> TRUE, st |-> st]
    ELSE [err |-> FALSE, st |-> [st EXCEPT !.cells[c].v = v]]

-----------------------------------------------------------------------------
(* The parser: Syntax -> Expr under an environment *)

\* the primitive table the parser consults (Def.hpp)
primitives ==
    ("+" :> "E_PLUS") @@ ("-" :> "E_MINUS") @@ ("*" :> "E_MUL") @@ ("/" :> "E_DIV")
    @@ ("modulo" :> "E_MODULO") @@ ("expt" :> "E_EXPT") @@ ("list" :> "E_LIST")
    @@ ("<" :> "E_LT") @@ ("<=" :> "E_LE") @@ ("=" :> "E_EQ") @@ (">=" :> "E_GE")
    @@ (">" :> "E_GT") @@ ("and" :> "E_AND") @@ ("or" :> "E_OR") @@ ("not" :> "E_NOT")
    @@ ("eq?" :> "E_EQQ") @@ ("boolean?" :> "E_BOOLQ") @@ ("number?" :> "E_INTQ")
    @@ ("null?" :> "E_NULLQ") @@ ("pair?" :> "E_PAIRQ") @@ ("procedure?" :> "E_PROCQ")
    @@ ("symbol?" :> "E_SYMBOLQ") @@ ("string?" :> "E_STRINGQ") @@ ("list?" :> "E_LISTQ")
    @@ ("cons" :> "E_CONS") @@ ("car" :> "E_CAR") @@ ("cdr" :> "E_CDR")
    @@ ("set-car!" :> "E_SETCAR") @@ ("set-cdr!" :> "E_SETCDR")
    @@ ("display" :> "E_DISPLAY") @@ ("void" :> "E_VOID") @@ ("exit" :> "E_EXIT")

\* the reserved-word table the parser consults (Def.hpp)
reserved_words ==
    ("quote" :> "E_QUOTE") @@ ("begin" :> "E_BEGIN") @@ ("if" :> "E_IF")
    @@ ("cond" :> "E_COND") @@ ("lambda" :> "E_LAMBDA") @@ ("define" :> "E_DEFINE")
    @@ ("let" :> "E_LET") @@ ("letrec" :> "E_LETREC") @@ ("set!" :> "E_SET")

\* operators with a two-operand node and a variadic node: <<binary class, variadic class>>
binaryOrVariadic ==
    ("E_PLUS" :> <<"Plus", "PlusVar">>) @@ ("E_MINUS" :> <<"Minus", "MinusVar">>)
    @@ ("E_MUL" :> <<"Mult", "MultVar">>) @@ ("E_DIV" :> <<"Div", "DivVar">>)
    @@ ("E_LT" :> <<"Less", "LessVar">>) @@ ("E_LE" :> <<"LessEq", "LessEqVar">>)
    @@ ("E_EQ" :> <<"Equal", "EqualVar">>) @@ ("E_GE" :> <<"GreaterEq", "GreaterEqVar">>)
    @@ ("E_GT" :> <<"Greater", "GreaterVar">>)

\* operators the parser accepts with exactly one operand, and the node they produce
fixedUnary ==
    ("E_NOT" :> "Not") @@ ("E_BOOLQ" :> "IsBoolean") @@ ("E_INTQ" :> "IsFixnum")
    @@ ("E_NULLQ" :> "IsNull") @@ ("E_PAIRQ" :> "IsPair") @@ ("E_PROCQ" :> "IsProcedure")
    @@ ("E_SYMBOLQ" :> "IsSymbol") @@ ("E_STRINGQ" :> "IsString") @@ ("E_LISTQ" :> "IsList")
    @@ ("E_CAR" :> "Car") @@ ("E_CDR" :> "Cdr") @@ ("E_DISPLAY" :> "Display")

\* operators the parser accepts with exactly two operands, and the node they produce
fixedBinary ==
    ("E_MODULO" :> "Modulo") @@ ("E_EXPT" :> "Expt") @@ ("E_EQQ" :> "IsEq")
    @@ ("E_CONS" :> "Cons") @@ ("E_SETCAR" :> "SetCar") @@ ("E_SETCDR" :> "SetCdr")

\* a parse that produced e / a parse that threw RuntimeError
Parsed(e) == [err |-> FALSE, e |-> e]

ParseError == [err |-> TRUE]

\* a variant that only asks for enough operands and drops the surplus
parsePrimitiveLenient(op_type, parameters) ==
    LET n == Len(parameters) IN
    CASE op_type \in DOMAIN binaryOrVariadic ->
            IF n = 2
            THEN Parsed(Binary(binaryOrVariadic[op_type][1], parameters[1], parameters[2]))
            ELSE Parsed(Variadic(binaryOrVariadic[op_type][2], parameters))
      [] op_type = "E_LIST" -> Parsed(Variadic("ListFunc", parameters))
      [] op_type = "E_AND" -> Parsed(AndVar(parameters))
      [] op_type = "E_OR" -> Parsed(OrVar(parameters))
      [] op_type \in DOMAIN fixedUnary ->
            IF n < 1 THEN ParseError
            ELSE Parsed(Unary(fixedUnary[op_type], parameters[1]))
      [] op_type \in DOMAIN fixedBinary ->
            IF n < 2 THEN ParseError
            ELSE Parsed(Binary(fixedBinary[op_type], parameters[1], parameters[2]))
      [] op_type = "E_VOID" -> Parsed(MakeVoid)
      [] op_type = "E_EXIT" -> Parsed(Exit)
      [] OTHER -> ParseError

\* the node of a primitive applied to its already parsed operands
parsePrimitive(op_type, parameters) ==
    LET n == Len(parameters) IN
    CASE op_type \in DOMAIN binaryOrVariadic ->
            IF n = 2
            THEN Parsed(Binary(binaryOrVariadic[op_type][1], parameters[1], parameters[2]))
            ELSE Parsed(Variadic(binaryOrVariadic[op_type][2], parameters))
      [] op_type = "E_LIST" -> Parsed(Variadic("ListFunc", parameters))
      [] op_type = "E_AND" -> Parsed(AndVar(parameters))
      [] op_type = "E_OR" -> Parsed(OrVar(parameters))
      [] op_type \in DOMAIN fixedUnary ->
            IF n # 1 THEN ParseError
            ELSE Parsed(Unary(fixedUnary[op_type], parameters[1]))
      [] op_type \in DOMAIN fixedBinary ->
            IF n # 2 THEN ParseError
            ELSE Parsed(Binary(fixedBinary[op_type], parameters[1], parameters[2]))
      [] op_type = "E_VOID" -> IF n # 0 THEN ParseError ELSE Parsed(MakeVoid)
      [] op_type = "E_EXIT" -> IF n # 0 THEN ParseError ELSE Parsed(Exit)
      [] OTHER -> ParseError

RECURSIVE symbolNames(_, _)
\* the names stxs[i], stxs[i+1], ... of a parameter list; an error when one is no symbol
symbolNames(stxs, i) ==
    IF i > Len(stxs) THEN [err |-> FALSE, names |-> <<>>]
    ELSE IF stxs[i].s # "SymbolSyntax" THEN [err |-> TRUE, names |-> <<>>]
    ELSE LET rest == symbolNames(stxs, i + 1) IN
         IF rest.err THEN rest
         ELSE [err |-> FALSE, names |-> <<stxs[i].x>> \o rest.names]

RECURSIVE parse(_, _, _), parseFrom(_, _, _, _), parseBindings(_, _, _, _),
          parseClauses(_, _, _, _)

\* stxs[i], stxs[i+1], ... parsed in order
parseFrom(stxs, i, env, st) ==
    IF i > Len(stxs) THEN [err |-> FALSE, es |-> <<>>]
    ELSE LET h == parse(stxs[i], env, st) IN
         IF h.err THEN [err |-> TRUE, es |-> <<>>]
         ELSE LET rest == parseFrom(stxs, i + 1, env, st) IN
              IF rest.err THEN rest
              ELSE [err |-> FALSE, es |-> <<h.e>> \o rest.es]

\* the (name expr) bindings of a let or letrec
parseBindings(stxs, i, env, st) ==
    IF i > Len(stxs) THEN [err |-> FALSE, es |-> <<>>]
    ELSE LET b == stxs[i] IN
         IF b.s # "List" THEN [err |-> TRUE, es |-> <<>>]
         ELSE IF Len(b.stxs) # 2 THEN [err |-> TRUE, es |-> <<>>]
         ELSE IF b.stxs[1].s # "SymbolSyntax" THEN [err |-> TRUE, es |-> <<>>]
         ELSE LET h == parse(b.stxs[2], env, st) IN
              IF h.err THEN [err |-> TRUE, es |-> <<>>]
              ELSE LET rest == parseBindings(stxs, i + 1, env, st) IN
                   IF rest.err THEN rest
                   ELSE [err |-> FALSE,
                         es |-> <<[var |-> b.stxs[1].x, e |-> h.e]>> \o rest.es]

\* a variant that throws "Unknown primitive" for a clause whose test is the
\* symbol else when else is not bound
parseClausesRejectsElse(stxs, i, env, st) ==
    IF i > Len(stxs) THEN [err |-> FALSE, es |-> <<>>]
    ELSE IF stxs[i].s # "List" THEN [err |-> TRUE, es |-> <<>>]
    ELSE IF /\ stxs[i].stxs # <<>>
            /\ stxs[i].stxs[1] = SymbolSyntax("else")
            /\ find("else", env, st).t = "nullptr"
    THEN [err |-> TRUE, es |-> <<>>]
    ELSE LET c == parseFrom(stxs[i].stxs, 1, env, st) IN
         IF c.err THEN [err |-> TRUE, es |-> <<>>]
         ELSE LET rest == parseClauses(stxs, i + 1, env, st) IN
              IF rest.err THEN rest
              ELSE [err |-> FALSE, es |-> <<c.es>> \o rest.es]

\* the clauses of a cond, from stxs[i] on: each a list, each element parsed
parseClauses(stxs, i, env, st) ==
    IF i > Len(stxs) THEN [err |-> FALSE, es |-> <<>>]
    ELSE IF stxs[i].s # "List" THEN [err |-> TRUE, es |-> <<>>]
    ELSE LET c == parseFrom(stxs[i].stxs, 1, env, st) IN
         IF c.err THEN [err |-> TRUE, es |-> <<>>]
         ELSE LET rest == parseClauses(stxs, i + 1, env, st) IN
              IF rest.err THEN rest
              ELSE [err |-> FALSE, es |-> <<c.es>> \o rest.es]

\* a list whose head is a reserved word
parseReserved(word, stxs, env, st) ==
    CASE word = "E_QUOTE" ->
            IF Len(stxs) # 2 THEN ParseError ELSE Parsed(Quote(stxs[2]))
      [] word = "E_BEGIN" ->
            LET es == parseFrom(stxs, 2, env, st) IN
            IF es.err THEN ParseError ELSE Parsed(Begin(es.es))
      [] word = "E_IF" ->
            IF Len(stxs) # 4 THEN ParseError
            ELSE LET es == parseFrom(stxs, 2, env, st) IN
                 IF es.err THEN ParseError ELSE Parsed(If(es.es[1], es.es[2], es.es[3]))
      [] word = "E_COND" ->
            LET cs == parseClauses(stxs, 2, env, st) IN
            IF cs.err THEN ParseError ELSE Parsed(Cond(cs.es))
      [] word = "E_LAMBDA" ->
            IF Len(stxs) # 3 THEN ParseError
            ELSE IF stxs[2].s # "List" THEN ParseError
            ELSE LET params == symbolNames(stxs[2].stxs, 1) IN
                 IF params.err THEN ParseError
                 ELSE LET body == parse(stxs[3], env, st) IN
                      IF body.err THEN ParseError
                      ELSE Parsed(Lambda(params.names, body.e))
      [] word = "E_DEFINE" ->
            IF Len(stxs) # 3 THEN ParseError
            ELSE IF stxs[2].s = "SymbolSyntax"
            THEN LET e == parse(stxs[3], env, st) IN
                 IF e.err THEN ParseError ELSE Parsed(Define(stxs[2].x, e.e))
            ELSE IF stxs[2].s # "List" THEN ParseError
            ELSE IF stxs[2].stxs = <<>> THEN ParseError
            ELSE IF stxs[2].stxs[1].s # "SymbolSyntax" THEN ParseError
            ELSE LET params == symbolNames(stxs[2].stxs, 2) IN
                 IF params.err THEN ParseError
                 ELSE LET body == parse(stxs[3], env, st) IN
                      IF body.err THEN ParseError
                      ELSE Parsed(Define(stxs[2].stxs[1].x,
                                         Lambda(params.names, body.e)))
      [] word \in {"E_LET", "E_LETREC"} ->
            IF Len(stxs) # 3 THEN ParseError
            ELSE IF stxs[2].s # "List" THEN ParseError
            ELSE LET bs == parseBindings(stxs[2].stxs, 1, env, st) IN
                 IF bs.err THEN ParseError
                 ELSE LET body == parse(stxs[3], env, st) IN
                      IF body.err THEN ParseError
                      ELSE IF word = "E_LET" THEN Parsed(Let(bs.es, body.e))
                      ELSE Parsed(Letrec(bs.es, body.e))
      [] word = "E_SET" ->
            IF Len(stxs) # 3 THEN ParseError
            ELSE IF stxs[2].s # "SymbolSyntax" THEN ParseError
            ELSE LET e == parse(stxs[3], env, st) IN
                 IF e.err THEN ParseError ELSE Parsed(Set(stxs[2].x, e.e))
      [] OTHER -> ParseError

\* an application: the operator expression over the parsed operands stxs[2..]
parseApply(rator, stxs, env, st) ==
    LET rand == parseFrom(stxs, 2, env, st) IN
    IF rand.err THEN ParseError
    ELSE IF rator.err THEN ParseError
    ELSE Parsed(Apply(rator.e, rand.es))

\* a variant of List::parse whose last case throws "Unknown primitive" for a
\* head symbol that is neither bound, nor a primitive, nor a reserved word
parseListRejectsUnknown(stxs, env, st) ==
    IF stxs = <<>> THEN Parsed(Quote(List(<<>>)))
    ELSE IF stxs[1].s # "SymbolSyntax"
    THEN parseApply(parse(stxs[1], env, st), stxs, env, st)
    ELSE LET op == stxs[1].x IN
         IF find(op, env, st).t # "nullptr"
         THEN parseApply(Parsed(Var(op)), stxs, env, st)
         ELSE IF op \in DOMAIN primitives
         THEN LET parameters == parseFrom(stxs, 2, env, st) IN
              IF parameters.err THEN ParseError
              ELSE parsePrimitive(primitives[op], parameters.es)
         ELSE IF op \in DOMAIN reserved_words
         THEN parseReserved(reserved_words[op], stxs, env, st)
         ELSE ParseError

\* List::parse
parseList(stxs, env, st) ==
    IF stxs = <<>> THEN Parsed(Quote(List(<<>>)))
    ELSE IF stxs[1].s # "SymbolSyntax"
    THEN parseApply(parse(stxs[1], env, st), stxs, env, st)
    ELSE LET op == stxs[1].x IN
         IF find(op, env, st).t # "nullptr"
         THEN parseApply(Parsed(Var(op)), stxs, env, st)
         ELSE IF op \in DOMAIN primitives
         THEN LET parameters == parseFrom(stxs, 2, env, st) IN
              IF parameters.err THEN ParseError
              ELSE parsePrimitive(primitives[op], parameters.es)
         ELSE IF op \in DOMAIN reserved_words
         THEN parseReserved(reserved_words[op], stxs, env, st)
         ELSE parseApply(Parsed(Var(op)), stxs, env, st)

\* Syntax::parse, by syntax class
parse(stx, env, st) ==
    CASE stx.s = "Number" -> Parsed(Fixnum(stx.n))
      [] stx.s = "RationalSyntax" -> Parsed(RationalNum(stx.numerator, stx.denominator))
      [] stx.s = "SymbolSyntax" -> Parsed(Var(stx.x))
      [] stx.s = "StringSyntax" -> Parsed(StringExpr(stx.x))
      [] stx.s = "TrueSyntax" -> Parsed(True)
      [] stx.s = "FalseSyntax" -> Parsed(False)
      [] stx.s = "List" -> parseList(stx.stxs, env, st)

-----------------------------------------------------------------------------
(* Machine arithmetic on int *)

\* n reduced to the two's complement int of IntBits bits
WrapInt(n) ==
    LET m == 2 ^ IntBits
        r == n % m
    IN IF 2 * r >= m THEN r - m ELSE r

INT_MAX == 2 ^ (IntBits - 1) - 1

INT_MIN == -(2 ^ (IntBits - 1))

Abs(n) == IF n < 0 THEN -n ELSE n

\* C++ integer division: truncation toward zero
CQuot(a, b) ==
    LET q == Abs(a) \div Abs(b) IN IF (a < 0) # (b < 0) THEN -q ELSE q

\* C++ remainder: the sign of the dividend
CRem(a, b) == a - b * CQuot(a, b)

\* n is a value of int
Fits(n) == INT_MIN <= n /\ n <= INT_MAX

\* the outcome of a helper: a value, a thrown RuntimeError, or the end of
\* the process in a build whose int operations trap
Returns(v) == [err |-> FALSE, trap |-> FALSE, v |-> v]

Throws == [err |-> TRUE, trap |-> FALSE, v |-> VoidV]

Traps == [err |-> TRUE, trap |-> TRUE, v |-> VoidV]

\* the outcome of a helper that computed the int results ns on its way to v:
\* when one of them does not fit, the operation has no defined result, and
\* the build either went on with the wrapped bits or trapped
Computed(ns, v) ==
    IF \A n \in ns : Fits(n) THEN Returns(v)
    ELSE IF signedOverflow = "wraps" THEN Returns(v)
    ELSE Traps

addValues(v1, v2) ==
    CASE v1.t = "V_INT" /\ v2.t = "V_INT" ->
            Computed({v1.n + v2.n}, IntegerV(WrapInt(v1.n + v2.n)))
      [] v1.t = "V_RATIONAL" /\ v2.t = "V_RATIONAL" ->
            LET left == v1.numerator * v2.denominator
                right == v2.numerator * v1.denominator
                num == WrapInt(left) + WrapInt(right)
                den == v1.denominator * v2.denominator
            IN Computed({left, right, num, den}, RationalV(WrapInt(num), WrapInt(den)))
      [] v1.t = "V_INT" /\ v2.t = "V_RATIONAL" ->
            LET left == v1.n * v2.denominator
                num == WrapInt(left) + v2.numerator
            IN Computed({left, num}, RationalV(WrapInt(num), v2.denominator))
      [] v1.t = "V_RATIONAL" /\ v2.t = "V_INT" ->
            LET right == v2.n * v1.denominator
                num == v1.numerator + WrapInt(right)
            IN Computed({right, num}, RationalV(WrapInt(num), v1.denominator))
      [] OTHER -> Throws

subtractValues(v1, v2) ==
    CASE v1.t = "V_INT" /\ v2.t = "V_INT" ->
            Computed({v1.n - v2.n}, IntegerV(WrapInt(v1.n - v2.n)))
      [] v1.t = "V_RATIONAL" /\ v2.t = "V_RATIONAL" ->
            LET left == v1.numerator * v2.denominator
                right == v2.numerator * v1.denominator
                num == WrapInt(left) - WrapInt(right)
                den == v1.denominator * v2.denominator
            IN Computed({left, right, num, den}, RationalV(WrapInt(num), WrapInt(den)))
      [] v1.t = "V_INT" /\ v2.t = "V_RATIONAL" ->
            LET left == v1.n * v2.denominator
                num == WrapInt(left) - v2.numerator
            IN Computed({left, num}, RationalV(WrapInt(num), v2.denominator))
      [] v1.t = "V_RATIONAL" /\ v2.t = "V_INT" ->
            LET right == v2.n * v1.denominator
                num == v1.numerator - WrapInt(right)
            IN Computed({right, num}, RationalV(WrapInt(num), v1.denominator))
      [] OTHER -> Throws

multiplyValues(v1, v2) ==
    CASE v1.t = "V_INT" /\ v2.t = "V_INT" ->
            Computed({v1.n * v2.n}, IntegerV(WrapInt(v1.n * v2.n)))
      [] v1.t = "V_RATIONAL" /\ v2.t = "V_RATIONAL" ->
            LET num == v1.numerator * v2.numerator
                den == v1.denominator * v2.denominator
            IN Computed({num, den}, RationalV(WrapInt(num), WrapInt(den)))
      [] v1.t = "V_INT" /\ v2.t = "V_RATIONAL" ->
            Computed({v1.n * v2.numerator},
                     RationalV(WrapInt(v1.n * v2.numerator), v2.denominator))
      [] v1.t = "V_RATIONAL" /\ v2.t = "V_INT" ->
            Computed({v1.numerator * v2.n},
                     RationalV(WrapInt(v1.numerator * v2.n), v1.denominator))
      [] OTHER -> Throws

\* n1 % n2 and n1 / n2 have no defined result when the quotient does not fit
\* (INT_MIN and -1)
divideValues(v1, v2) ==
    CASE v1.t = "V_INT" /\ v2.t = "V_INT" ->
            IF v2.n = 0 THEN Throws
            ELSE IF CRem(v1.n, v2.n) = 0
            THEN Computed({CQuot(v1.n, v2.n)}, IntegerV(WrapInt(CQuot(v1.n, v2.n))))
            ELSE Returns(RationalV(v1.n, v2.n))
      [] v1.t = "V_RATIONAL" /\ v2.t = "V_RATIONAL" ->
            IF v2.numerator = 0 THEN Throws
            ELSE LET num == v1.numerator * v2.denominator
                     den == v1.denominator * v2.numerator
                 IN Computed({num, den}, RationalV(WrapInt(num), WrapInt(den)))
      [] v1.t = "V_INT" /\ v2.t = "V_RATIONAL" ->
            IF v2.numerator = 0 THEN Throws
            ELSE Computed({v1.n * v2.denominator},
                          RationalV(WrapInt(v1.n * v2.denominator), v2.numerator))
      [] v1.t = "V_RATIONAL" /\ v2.t = "V_INT" ->
            IF v2.n = 0 THEN Throws
            ELSE Computed({v1.denominator * v2.n},
                          RationalV(v1.numerator, WrapInt(v1.denominator * v2.n)))
      [] OTHER -> Throws

\* -1, 0 or 1 in field c, a thrown error, or a trap
compareNumericValues(v1, v2) ==
    LET sign(left, right) == IF left < right THEN -1 ELSE IF left > right THEN 1 ELSE 0
        compared(ns, c) ==
            IF (\A n \in ns : Fits(n)) \/ signedOverflow = "wraps"
            THEN [err |-> FALSE, trap |-> FALSE, c |-> c]
            ELSE [err |-> TRUE, trap |-> TRUE, c |-> 0]
    IN
    CASE v1.t = "V_INT" /\ v2.t = "V_INT" -> compared({}, sign(v1.n, v2.n))
      [] v1.t = "V_RATIONAL" /\ v2.t = "V_INT" ->
            compared({v2.n * v1.denominator},
                     sign(v1.numerator, WrapInt(v2.n * v1.denominator)))
      [] v1.t = "V_INT" /\ v2.t = "V_RATIONAL" ->
            compared({v1.n * v2.denominator},
                     sign(WrapInt(v1.n * v2.denominator), v2.numerator))
      [] v1.t = "V_RATIONAL" /\ v2.t = "V_RATIONAL" ->
            compared({v1.numerator * v2.denominator, v2.numerator * v1.denominator},
                     sign(WrapInt(v1.numerator * v2.denominator),
                          WrapInt(v2.numerator * v1.denominator)))
      [] OTHER -> [err |-> TRUE, trap |-> FALSE, c |-> 0]

\* Modulo::evalRator
moduloValues(v1, v2) ==
    IF v1.t = "V_INT" /\ v2.t = "V_INT"
    THEN IF v2.n = 0 THEN Throws
         ELSE Computed({CQuot(v1.n, v2.n)}, IntegerV(CRem(v1.n, v2.n)))
    ELSE Throws

\* the comparison a binary or variadic comparison node demands of -1/0/1
relationHolds(op, c) ==
    CASE op \in {"Less", "LessVar"} -> c < 0
      [] op \in {"LessEq", "LessEqVar"} -> c <= 0
      [] op \in {"Equal", "EqualVar"} -> c = 0
      [] op \in {"GreaterEq", "GreaterEqVar"} -> c >= 0
      [] op \in {"Greater", "GreaterVar"} -> c > 0

RECURSIVE exptLoop(_, _, _)
\* a variant that throws as soon as the squared base leaves int, also when
\* that square is never multiplied in
exptLoopChecksEverySquare(result, b, exp) ==
    IF exp <= 0 THEN Returns(IntegerV(result))
    ELSE LET r1 == IF exp % 2 = 1 THEN result * b ELSE result
             b2 == b * b
         IN IF exp % 2 = 1 /\ (r1 > INT_MAX \/ r1 < INT_MIN) THEN Throws
            ELSE IF b2 > INT_MAX \/ b2 < INT_MIN THEN Throws
            ELSE exptLoop(r1, b2, exp \div 2)

\* the square-and-multiply loop of Expt::evalRator on its widened accumulator
exptLoop(result, b, exp) ==
    IF exp <= 0 THEN Returns(IntegerV(result))
    ELSE LET r1 == IF exp % 2 = 1 THEN result * b ELSE result
             b2 == b * b
         IN IF exp % 2 = 1 /\ (r1 > INT_MAX \/ r1 < INT_MIN) THEN Throws
            ELSE IF (b2 > INT_MAX \/ b2 < INT_MIN) /\ exp > 1 THEN Throws
            ELSE exptLoop(r1, b2, exp \div 2)

\* Expt::evalRator
exptValues(v1, v2) ==
    IF v1.t = "V_INT" /\ v2.t = "V_INT"
    THEN IF v2.n < 0 THEN Throws
         ELSE IF v1.n = 0 /\ v2.n = 0 THEN Throws
         ELSE exptLoop(1, v1.n, v2.n)
    ELSE Throws

-----------------------------------------------------------------------------
(* The evaluator: Expr x environment x store -> value x store, or an error *)

\* evaluation returned v in store st / threw RuntimeError in store st
Value(v, st) == [err |-> FALSE, v |-> v, st |-> st]

Throw(st) == [err |-> TRUE, v |-> VoidV, st |-> st]

\* the process was ended by a trap: nothing of it runs any more
Abort(st) == [err |-> TRUE, v |-> VoidV, st |-> [st EXCEPT !.aborted = TRUE]]

\* a helper's outcome, in the store st
Lift(r, st) ==
    IF r.err THEN (IF r.trap THEN Abort(st) ELSE Throw(st)) ELSE Value(r.v, st)

\* a fresh Pair cell
PairV(car, cdr, st) ==
    Value(PairRef(Len(st.pairs) + 1),
          [st EXCEPT !.pairs = Append(@, [car |-> car, cdr |-> cdr])])

RECURSIVE Render(_, _)
\* what Value::show writes for v: pairs by their contents, a procedure as a placeholder
Render(v, st) ==
    CASE v.t = "V_PAIR" ->
            [t |-> "V_PAIR", car |-> Render(st.pairs[v.a].car, st),
                             cdr |-> Render(st.pairs[v.a].cdr, st)]
      [] v.t = "V_PROC" -> [t |-> "V_PROC"]
      [] OTHER -> v

\* a piece of text on std::cout
Text(x) == [t |-> "text", s |-> x]

RECURSIVE cdrChainEnd(_, _)
\* the first non-pair value of the cdr chain from v (IsList::evalRator's while loop)
cdrChainEnd(v, st) ==
    IF v.t = "V_PAIR" THEN cdrChainEnd(st.pairs[v.a].cdr, st) ELSE v

\* no activation of IsList::evalRator is being executed
noWalk == [pc |-> "none", rand |-> NullV, current |-> NullV, result |-> NullV]

\* IsList::evalRator up to its loop: the two early returns and Value current = rand
isListEnter(rand) ==
    IF rand.t = "V_NULL"
    THEN [pc |-> "returned", rand |-> rand, current |-> rand, result |-> BooleanV(TRUE)]
    ELSE IF rand.t # "V_PAIR"
    THEN [pc |-> "returned", rand |-> rand, current |-> rand, result |-> BooleanV(FALSE)]
    ELSE [pc |-> "while", rand |-> rand, current |-> rand, result |-> NullV]

\* a loop that gives up when the chain leads back to the value it started from
isListLoopStopsAtStart(w, st) ==
    IF w.current.t = "V_PAIR"
    THEN IF st.pairs[w.current.a].cdr = w.rand
         THEN [w EXCEPT !.pc = "returned", !.result = BooleanV(FALSE)]
         ELSE [w EXCEPT !.current = st.pairs[w.current.a].cdr]
    ELSE [w EXCEPT !.pc = "returned", !.result = BooleanV(w.current.t = "V_NULL")]

\* one test of the condition of IsList::evalRator's while loop: the body
\* (current = p->cdr) when it holds, the return statement when it does not
isListLoop(w, st) ==
    IF w.current.t = "V_PAIR"
    THEN [w EXCEPT !.current = st.pairs[w.current.a].cdr]
    ELSE [w EXCEPT !.pc = "returned", !.result = BooleanV(w.current.t = "V_NULL")]

\* Unary::evalRator, by node class
unaryRator(op, rand, st) ==
    CASE op = "Not" ->
            IF rand.t = "V_BOOL" THEN Value(BooleanV(~rand.b), st)
            ELSE Value(BooleanV(FALSE), st)
      [] op = "IsBoolean" -> Value(BooleanV(rand.t = "V_BOOL"), st)
      [] op = "IsFixnum" -> Value(BooleanV(rand.t = "V_INT"), st)
      [] op = "IsNull" -> Value(BooleanV(rand.t = "V_NULL"), st)
      [] op = "IsPair" -> Value(BooleanV(rand.t = "V_PAIR"), st)
      [] op = "IsProcedure" -> Value(BooleanV(rand.t = "V_PROC"), st)
      [] op = "IsSymbol" -> Value(BooleanV(rand.t = "V_SYM"), st)
      [] op = "IsString" -> Value(BooleanV(rand.t = "V_STRING"), st)
      [] op = "IsList" ->
            IF rand.t = "V_NULL" THEN Value(BooleanV(TRUE), st)
            ELSE IF rand.t # "V_PAIR" THEN Value(BooleanV(FALSE), st)
            ELSE Value(BooleanV(cdrChainEnd(rand, st).t = "V_NULL"), st)
      [] op = "Car" ->
            IF rand.t # "V_PAIR" THEN Throw(st) ELSE Value(st.pairs[rand.a].car, st)
      [] op = "Cdr" ->
            IF rand.t # "V_PAIR" THEN Throw(st) ELSE Value(st.pairs[rand.a].cdr, st)
      [] op = "Display" ->
            IF rand.t = "V_STRING"
            THEN Value(VoidV, [st EXCEPT !.out = Append(@, Text(rand.s))])
            ELSE Value(VoidV, [st EXCEPT !.out = Append(@, Render(rand, st))])

\* IsEq::evalRator; of the values compared by address only pairs are told apart
isEq(rand1, rand2) ==
    CASE rand1.t = "V_INT" /\ rand2.t = "V_INT" -> rand1.n = rand2.n
      [] rand1.t = "V_BOOL" /\ rand2.t = "V_BOOL" -> rand1.b = rand2.b
      [] rand1.t = "V_SYM" /\ rand2.t = "V_SYM" -> rand1.s = rand2.s
      [] rand1.t = "V_NULL" /\ rand2.t = "V_NULL" -> TRUE
      [] rand1.t = "V_VOID" /\ rand2.t = "V_VOID" -> TRUE
      [] rand1.t = "V_PAIR" /\ rand2.t = "V_PAIR" -> rand1.a = rand2.a
      [] OTHER -> FALSE

\* Binary::evalRator, by node class
binaryRator(op, rand1, rand2, st) ==
    CASE op = "Plus" -> Lift(addValues(rand1, rand2), st)
      [] op = "Minus" -> Lift(subtractValues(rand1, rand2), st)
      [] op = "Mult" -> Lift(multiplyValues(rand1, rand2), st)
      [] op = "Div" -> Lift(divideValues(rand1, rand2), st)
      [] op = "Modulo" -> Lift(moduloValues(rand1, rand2), st)
      [] op = "Expt" -> Lift(exptValues(rand1, rand2), st)
      [] op \in {"Less", "LessEq", "Equal", "GreaterEq", "Greater"} ->
            LET c == compareNumericValues(rand1, rand2) IN
            IF c.err THEN (IF c.trap THEN Abort(st) ELSE Throw(st))
            ELSE Value(BooleanV(relationHolds(op, c.c)), st)
      [] op = "IsEq" -> Value(BooleanV(isEq(rand1, rand2)), st)
      [] op = "Cons" -> PairV(rand1, rand2, st)
      [] op = "SetCar" ->
            IF rand1.t # "V_PAIR" THEN Throw(st)
            ELSE Value(VoidV, [st EXCEPT !.pairs[rand1.a].car = rand2])
      [] op = "SetCdr" ->
            IF rand1.t # "V_PAIR" THEN Throw(st)
            ELSE Value(VoidV, [st EXCEPT !.pairs[rand1.a].cdr = rand2])

RECURSIVE foldValues(_, _, _, _)
\* result op args[i] op args[i+1] ..., left to right, with op one of the numeric helpers
foldValues(op, result, args, i) ==
    IF i > Len(args) THEN Returns(result)
    ELSE LET r == CASE op = "PlusVar" -> addValues(result, args[i])
                    [] op = "MinusVar" -> subtractValues(result, args[i])
                    [] op = "MultVar" -> multiplyValues(result, args[i])
                    [] op = "DivVar" -> divideValues(result, args[i])
         IN IF r.err THEN r ELSE foldValues(op, r.v, args, i + 1)

RECURSIVE chainHolds(_, _, _)
\* the loop of a variadic comparison over the adjacent pairs from args[i]
chainHolds(op, args, i) ==
    IF i >= Len(args) THEN Returns(BooleanV(TRUE))
    ELSE LET c == compareNumericValues(args[i], args[i + 1]) IN
         IF c.err THEN (IF c.trap THEN Traps ELSE Throws)
         ELSE IF ~relationHolds(op, c.c) THEN Returns(BooleanV(FALSE))
         ELSE chainHolds(op, args, i + 1)

RECURSIVE listFrom(_, _, _, _)
\* ListFunc::evalRator: the pairs are built from the last argument backwards
listFrom(args, i, result, st) ==
    IF i < 1 THEN Value(result, st)
    ELSE LET p == PairV(args[i], result, st) IN listFrom(args, i - 1, p.v, p.st)

\* Variadic::evalRator, by node class
variadicRator(op, args, st) ==
    CASE op = "PlusVar" ->
            IF Len(args) = 0 THEN Value(IntegerV(0), st)
            ELSE Lift(foldValues(op, args[1], args, 2), st)
      [] op = "MinusVar" ->
            IF Len(args) = 0 THEN Throw(st)
            ELSE IF Len(args) = 1
            THEN CASE args[1].t = "V_INT" ->
                        Lift(Computed({-args[1].n}, IntegerV(WrapInt(-args[1].n))), st)
                   [] args[1].t = "V_RATIONAL" ->
                        Lift(Computed({-args[1].numerator},
                                      RationalV(WrapInt(-args[1].numerator),
                                                args[1].denominator)), st)
                   [] OTHER -> Throw(st)
            ELSE Lift(foldValues(op, args[1], args, 2), st)
      [] op = "MultVar" ->
            IF Len(args) = 0 THEN Value(IntegerV(1), st)
            ELSE Lift(foldValues(op, IntegerV(1), args, 1), st)
      [] op = "DivVar" ->
            IF Len(args) = 0 THEN Throw(st)
            ELSE IF Len(args) = 1
            THEN CASE args[1].t = "V_INT" ->
                        IF args[1].n = 0 THEN Throw(st)
                        ELSE Value(RationalV(1, args[1].n), st)
                   [] args[1].t = "V_RATIONAL" ->
                        IF args[1].numerator = 0 THEN Throw(st)
                        ELSE Value(RationalV(args[1].denominator, args[1].numerator), st)
                   [] OTHER -> Throw(st)
            ELSE Lift(foldValues(op, args[1], args, 2), st)
      [] op \in {"LessVar", "LessEqVar", "EqualVar", "GreaterEqVar", "GreaterVar"} ->
            IF Len(args) < 2 THEN Throw(st) ELSE Lift(chainHolds(op, args, 1), st)
      [] op = "ListFunc" -> listFrom(args, Len(args), NullV, st)

RECURSIVE syntaxToValue(_, _), syntaxListToValue(_, _, _, _)
\* the quoted datum as a value; nothing in it is evaluated
syntaxToValue(s, st) ==
    CASE s.s = "Number" -> Value(IntegerV(s.n), st)
      [] s.s = "RationalSyntax" -> Value(RationalV(s.numerator, s.denominator), st)
      [] s.s = "StringSyntax" -> Value(StringV(s.x), st)
      [] s.s = "SymbolSyntax" -> Value(SymbolV(s.x), st)
      [] s.s = "TrueSyntax" -> Value(BooleanV(TRUE), st)
      [] s.s = "FalseSyntax" -> Value(BooleanV(FALSE), st)
      [] s.s = "List" ->
            IF s.stxs = <<>> THEN Value(NullV, st)
            ELSE syntaxListToValue(s.stxs, Len(s.stxs), NullV, st)

\* a variant of the loop that takes the elements first to last, so that the
\* list comes out in reverse
syntaxListToValueForward(stxs, i, result, st) ==
    IF i < 1 THEN Value(result, st)
    ELSE LET h == syntaxToValue(stxs[Len(stxs) - i + 1], st)
             p == PairV(h.v, result, h.st)
         IN syntaxListToValue(stxs, i - 1, p.v, p.st)

\* the loop of syntaxToValue over the elements i, i-1, ..., 1
syntaxListToValue(stxs, i, result, st) ==
    IF i < 1 THEN Value(result, st)
    ELSE LET h == syntaxToValue(stxs[i], st)
             p == PairV(h.v, result, h.st)
         IN syntaxListToValue(stxs, i - 1, p.v, p.st)

RECURSIVE Eval(_, _, _), evalArgs(_, _, _, _), evalSequence(_, _, _, _, _)

\* es[i], es[i+1], ... evaluated left to right: [err, vs, st]
evalArgs(es, i, env, st) ==
    IF i > Len(es) THEN [err |-> FALSE, vs |-> <<>>, st |-> st]
    ELSE LET h == Eval(es[i], env, st) IN
         IF h.err THEN [err |-> TRUE, vs |-> <<>>, st |-> h.st]
         ELSE LET rest == evalArgs(es, i + 1, env, h.st) IN
              IF rest.err THEN rest
              ELSE [err |-> FALSE, vs |-> <<h.v>> \o rest.vs, st |-> rest.st]

\* a variant that leaves the sequence as soon as a value is Terminate
evalSequenceStopsAtTerminate(es, i, result, env, st) ==
    IF i > Len(es) \/ result.t = "V_TERMINATE" THEN Value(result, st)
    ELSE LET h == Eval(es[i], env, st) IN
         IF h.err THEN h ELSE evalSequence(es, i + 1, h.v, env, h.st)

\* es[i], es[i+1], ... evaluated in order; the value of the last one, result if none
evalSequence(es, i, result, env, st) ==
    IF i > Len(es) THEN Value(result, st)
    ELSE LET h == Eval(es[i], env, st) IN
         IF h.err THEN h ELSE evalSequence(es, i + 1, h.v, env, h.st)

\* Var::eval
VarEval(e, env, st) ==
    LET matched_value == find(e.x, env, st) IN
    IF matched_value.t = "nullptr" THEN Throw(st) ELSE Value(matched_value, st)

\* Unary::eval
UnaryEval(e, env, st) ==
    LET r == Eval(e.rand, env, st) IN
    IF r.err THEN r ELSE unaryRator(e.op, r.v, r.st)

\* Binary::eval: the two operands are arguments of one call, so the build
\* fixes which of them is evaluated first
BinaryEval(e, env, st) ==
    IF binaryOrder = "rand1 first"
    THEN LET r1 == Eval(e.rand1, env, st) IN
         IF r1.err THEN r1
         ELSE LET r2 == Eval(e.rand2, env, r1.st) IN
              IF r2.err THEN r2 ELSE binaryRator(e.op, r1.v, r2.v, r2.st)
    ELSE LET r2 == Eval(e.rand2, env, st) IN
         IF r2.err THEN r2
         ELSE LET r1 == Eval(e.rand1, env, r2.st) IN
              IF r1.err THEN r1 ELSE binaryRator(e.op, r1.v, r2.v, r1.st)

\* Variadic::eval
VariadicEval(e, env, st) ==
    LET args == evalArgs(e.rands, 1, env, st) IN
    IF args.err THEN Throw(args.st) ELSE variadicRator(e.op, args.vs, args.st)

\* Begin::eval
BeginEval(e, env, st) == evalSequence(e.es, 1, VoidV, env, st)

RECURSIVE andLoop(_, _, _, _, _)
\* the for loop of AndVar::eval from rands[i], result being the last value seen
andLoop(rands, i, result, env, st) ==
    IF i > Len(rands)
    THEN IF Len(rands) = 0 THEN Value(BooleanV(TRUE), st) ELSE Value(result, st)
    ELSE LET r == Eval(rands[i], env, st) IN
         IF r.err THEN r
         ELSE IF r.v.t = "V_BOOL" /\ ~r.v.b THEN Value(BooleanV(FALSE), r.st)
         ELSE andLoop(rands, i + 1, r.v, env, r.st)

\* a variant of AndVar::eval that evaluates every operand before it decides,
\* as the Variadic base class does
AndVarEvalEager(e, env, st) ==
    LET args == evalArgs(e.rands, 1, env, st) IN
    IF args.err THEN Throw(args.st)
    ELSE IF \E i \in 1 .. Len(args.vs) : args.vs[i].t = "V_BOOL" /\ ~args.vs[i].b
    THEN Value(BooleanV(FALSE), args.st)
    ELSE IF Len(args.vs) = 0 THEN Value(BooleanV(TRUE), args.st)
    ELSE Value(args.vs[Len(args.vs)], args.st)

\* AndVar::eval
AndVarEval(e, env, st) == andLoop(e.rands, 1, BooleanV(TRUE), env, st)

RECURSIVE orLoop(_, _, _, _)
\* the for loop of OrVar::eval from rands[i]
orLoop(rands, i, env, st) ==
    IF i > Len(rands) THEN Value(BooleanV(FALSE), st)
    ELSE LET r == Eval(rands[i], env, st) IN
         IF r.err THEN r
         ELSE IF r.v.t = "V_BOOL" /\ ~r.v.b THEN orLoop(rands, i + 1, env, r.st)
         ELSE IF Len(rands) = 0 THEN Value(BooleanV(FALSE), r.st)
         ELSE r

\* a variant of OrVar::eval that evaluates every operand before it decides,
\* as the Variadic base class does
OrVarEvalEager(e, env, st) ==
    LET args == evalArgs(e.rands, 1, env, st)
        hits == IF args.err THEN {}
                ELSE {i \in 1 .. Len(args.vs) : ~(args.vs[i].t = "V_BOOL" /\ ~args.vs[i].b)}
    IN IF args.err THEN Throw(args.st)
       ELSE IF hits = {} THEN Value(BooleanV(FALSE), args.st)
       ELSE Value(args.vs[CHOOSE i \in hits : \A j \in hits : i <= j], args.st)

\* OrVar::eval
OrVarEval(e, env, st) == orLoop(e.rands, 1, env, st)

\* a value counts as true unless it is the Boolean #f
isTrue(v) == IF v.t = "V_BOOL" THEN v.b ELSE TRUE

\* If::eval
IfEval(e, env, st) ==
    LET condValue == Eval(e.cond, env, st) IN
    IF condValue.err THEN condValue
    ELSE IF isTrue(condValue.v) THEN Eval(e.conseq, env, condValue.st)
    ELSE Eval(e.alter, env, condValue.st)

RECURSIVE condLoop(_, _, _, _)
\* the for loop of Cond::eval from clauses[i]
condLoop(clauses, i, env, st) ==
    IF i > Len(clauses) THEN Value(VoidV, st)
    ELSE LET clause == clauses[i] IN
         IF Len(clause) = 0 THEN condLoop(clauses, i + 1, env, st)
         ELSE LET condValue == Eval(clause[1], env, st) IN
              IF condValue.err THEN condValue
              ELSE IF isTrue(condValue.v)
              THEN IF Len(clause) = 1 THEN condValue
                   ELSE evalSequence(clause, 2, VoidV, env, condValue.st)
              ELSE condLoop(clauses, i + 1, env, condValue.st)

\* Cond::eval
CondEval(e, env, st) == condLoop(e.clauses, 1, env, st)

\* Lambda::eval: the procedure holds the environment it was made in, not a copy
LambdaEval(e, env, st) == Value(ProcedureV(e.x, e.e, env), st)

RECURSIVE bindParameters(_, _, _, _, _)
\* a variant that reuses the binding of a parameter the captured environment
\* already has a binding for, overwriting it, and extends only for a new name
bindParametersInPlace(parameters, args, i, param_env, st) ==
    IF i > Len(parameters) THEN [env |-> param_env, st |-> st]
    ELSE IF lookupCell(parameters[i], param_env, st) # 0
    THEN bindParameters(parameters, args, i + 1, param_env,
                        modify(parameters[i], args[i], param_env, st).st)
    ELSE LET x == extend(parameters[i], args[i], param_env, st) IN
         bindParameters(parameters, args, i + 1, x.env, x.st)

\* param_env extended by parameters[i] = args[i], parameters[i+1] = args[i+1], ...
bindParameters(parameters, args, i, param_env, st) ==
    IF i > Len(parameters) THEN [env |-> param_env, st |-> st]
    ELSE LET x == extend(parameters[i], args[i], param_env, st) IN
         bindParameters(parameters, args, i + 1, x.env, x.st)

\* Apply::eval
ApplyEval(e, env, st) ==
    LET ratorValue == Eval(e.rator, env, st) IN
    IF ratorValue.err THEN ratorValue
    ELSE IF ratorValue.v.t # "V_PROC" THEN Throw(ratorValue.st)
    ELSE LET clos == ratorValue.v
             args == evalArgs(e.rand, 1, env, ratorValue.st)
         IN IF args.err THEN Throw(args.st)
            ELSE IF Len(args.vs) # Len(clos.parameters) THEN Throw(args.st)
            ELSE LET p == bindParameters(clos.parameters, args.vs, 1, clos.env, args.st)
                 IN Eval(clos.e, p.env, p.st)

\* Define::eval: the list extend() returns is dropped and env is left as it was,
\* so the node made for var is released at once
DefineEval(e, env, st) ==
    LET value == Eval(e.e, env, st) IN
    IF value.err THEN value
    ELSE LET dropped == extend(e.var, value.v, env, value.st)
         IN Value(VoidV, value.st)

RECURSIVE letLoopSequential(_, _, _, _, _)
\* a variant of Let::eval's loop that evaluates each expression in the
\* environment built so far (let* instead of let)
letLoopSequential(bind, i, env, newEnv, st) ==
    IF i > Len(bind) THEN [err |-> FALSE, env |-> newEnv, st |-> st]
    ELSE LET value == Eval(bind[i].e, newEnv, st) IN
         IF value.err THEN [err |-> TRUE, env |-> newEnv, st |-> value.st]
         ELSE LET x == extend(bind[i].var, value.v, newEnv, value.st) IN
              letLoopSequential(bind, i + 1, env, x.env, x.st)

RECURSIVE letLoop(_, _, _, _, _)
\* the for loop of Let::eval: each expression in env, each binding onto newEnv
letLoop(bind, i, env, newEnv, st) ==
    IF i > Len(bind) THEN [err |-> FALSE, env |-> newEnv, st |-> st]
    ELSE LET value == Eval(bind[i].e, env, st) IN
         IF value.err THEN [err |-> TRUE, env |-> newEnv, st |-> value.st]
         ELSE LET x == extend(bind[i].var, value.v, newEnv, value.st) IN
              letLoop(bind, i + 1, env, x.env, x.st)

\* Let::eval
LetEval(e, env, st) ==
    LET b == letLoop(e.bind, 1, env, env, st) IN
    IF b.err THEN Throw(b.st) ELSE Eval(e.body, b.env, b.st)

RECURSIVE letrecPlaceholders(_, _, _, _), letrecPatch(_, _, _, _)
\* the first loop of Letrec::eval: every name bound to Null
letrecPlaceholders(bind, i, newEnv, st) ==
    IF i > Len(bind) THEN [env |-> newEnv, st |-> st]
    ELSE LET x == extend(bind[i].var, NullV, newEnv, st) IN
         letrecPlaceholders(bind, i + 1, x.env, x.st)

\* the second loop of Letrec::eval: each expression in newEnv, then modify
letrecPatch(bind, i, newEnv, st) ==
    IF i > Len(bind) THEN [err |-> FALSE, st |-> st]
    ELSE LET value == Eval(bind[i].e, newEnv, st) IN
         IF value.err THEN [err |-> TRUE, st |-> value.st]
         ELSE LET m == modify(bind[i].var, value.v, newEnv, value.st) IN
              IF m.err THEN m ELSE letrecPatch(bind, i + 1, newEnv, m.st)

\* a variant of Letrec::eval that builds the frame as Let::eval does: each
\* expression evaluated first, then bound by extend, no placeholder and no patch
LetrecEvalAsLet(e, env, st) ==
    LET b == letLoopSequential(e.bind, 1, env, env, st) IN
    IF b.err THEN Throw(b.st) ELSE Eval(e.body, b.env, b.st)

\* Letrec::eval
LetrecEval(e, env, st) ==
    LET ph == letrecPlaceholders(e.bind, 1, env, st)
        pt == letrecPatch(e.bind, 1, ph.env, ph.st)
    IN IF pt.err THEN Throw(pt.st) ELSE Eval(e.body, ph.env, pt.st)

\* a variant of Set::eval that leaves an unbound name alone and returns Void
SetEvalIgnoresUnbound(e, env, st) ==
    LET value == Eval(e.e, env, st) IN
    IF value.err THEN value
    ELSE LET m == modify(e.var, value.v, env, value.st) IN
         IF m.err THEN Value(VoidV, value.st) ELSE Value(VoidV, m.st)

\* Set::eval
SetEval(e, env, st) ==
    LET value == Eval(e.e, env, st) IN
    IF value.err THEN value
    ELSE LET m == modify(e.var, value.v, env, value.st) IN
         IF m.err THEN Throw(m.st) ELSE Value(VoidV, m.st)

\* Expr::eval, by expression class
Eval(e, env, st) ==
    CASE e.k = "Fixnum" -> Value(IntegerV(e.n), st)
      [] e.k = "RationalNum" -> Value(RationalV(e.numerator, e.denominator), st)
      [] e.k = "StringExpr" -> Value(StringV(e.s), st)
      [] e.k = "True" -> Value(BooleanV(TRUE), st)
      [] e.k = "False" -> Value(BooleanV(FALSE), st)
      [] e.k = "MakeVoid" -> Value(VoidV, st)
      [] e.k = "Exit" -> Value(TerminateV, st)
      [] e.k = "Var" -> VarEval(e, env, st)
      [] e.k = "Unary" -> UnaryEval(e, env, st)
      [] e.k = "Binary" -> BinaryEval(e, env, st)
      [] e.k = "Variadic" -> VariadicEval(e, env, st)
      [] e.k = "AndVar" -> AndVarEval(e, env, st)
      [] e.k = "OrVar" -> OrVarEval(e, env, st)
      [] e.k = "Quote" -> syntaxToValue(e.s, st)
      [] e.k = "Begin" -> BeginEval(e, env, st)
      [] e.k = "If" -> IfEval(e, env, st)
      [] e.k = "Cond" -> CondEval(e, env, st)
      [] e.k = "Lambda" -> LambdaEval(e, env, st)
      [] e.k = "Apply" -> ApplyEval(e, env, st)
      [] e.k = "Define" -> DefineEval(e, env, st)
      [] e.k = "Let" -> LetEval(e, env, st)
      [] e.k = "Letrec" -> LetrecEval(e, env, st)
      [] e.k = "Set" -> SetEval(e, env, st)

-----------------------------------------------------------------------------
(* The driver: REPL of main.cpp *)

\* the try block of REPL up to the value: parse, then eval, in global_env
parseAndEval(stx, env, st) ==
    LET expr == parse(stx, env, st) IN
    IF expr.err THEN Throw(st) ELSE Eval(expr.e, env, st)

\* a variant of REPL whose catch block leaves the loop
afterEvalStopsOnError(r) ==
    IF r.st.aborted THEN [running |-> FALSE, out |-> r.st.out]
    ELSE IF r.err
    THEN [running |-> FALSE, out |-> r.st.out \o <<Text("RuntimeError"), Text("\n")>>]
    ELSE IF r.v.t = "V_TERMINATE" THEN [running |-> FALSE, out |-> r.st.out]
    ELSE [running |-> TRUE, out |-> r.st.out \o <<Render(r.v, r.st), Text("\n")>>]

\* a variant of REPL without the V_TERMINATE test: the value is shown like
\* any other and the loop goes on
afterEvalShowsTerminate(r) ==
    IF r.st.aborted THEN [running |-> FALSE, out |-> r.st.out]
    ELSE IF r.err
    THEN [running |-> TRUE, out |-> r.st.out \o <<Text("RuntimeError"), Text("\n")>>]
    ELSE [running |-> TRUE, out |-> r.st.out \o <<Render(r.v, r.st), Text("\n")>>]

\* the rest of the loop body of REPL: catch prints RuntimeError, Terminate
\* breaks before anything is shown, any other value is shown; puts("") ends
\* the line; a trap ends the process where it is
afterEval(r) ==
    IF r.st.aborted THEN [running |-> FALSE, out |-> r.st.out]
    ELSE IF r.err
    THEN [running |-> TRUE, out |-> r.st.out \o <<Text("RuntimeError"), Text("\n")>>]
    ELSE IF r.v.t = "V_TERMINATE" THEN [running |-> FALSE, out |-> r.st.out]
    ELSE [running |-> TRUE, out |-> r.st.out \o <<Render(r.v, r.st), Text("\n")>>]

\* the prompt, written unless the build defines ONLINE_JUDGE
prompt == IF ONLINE_JUDGE THEN <<>> ELSE <<Text("scm> ")>>

\* one turn of the while loop of REPL on the form stx
REPLStep(stx) ==
    /\ running
    /\ LET r == parseAndEval(stx, global_env,
                    [cells |-> heap.cells, pairs |-> heap.pairs, out |-> cout \o prompt,
                     aborted |-> FALSE])
           d == afterEval(r)
       IN /\ heap' = [cells |-> r.st.cells, pairs |-> r.st.pairs]
          /\ cout' = d.out
          /\ running' = d.running
          /\ log' = Append(log, [stx |-> stx, err |-> r.err /\ ~r.st.aborted,
                                 aborted |-> r.st.aborted, v |-> Render(r.v, r.st),
                                 evalOut |-> r.st.out, out |-> d.out])
    /\ UNCHANGED <<global_env, binaryOrder, signedOverflow, ONLINE_JUDGE, walk>>

\* the input ends: the loop is left at its head (std::cin no longer good) or
\* at the peek for EOF, which comes after the prompt
EndOfInput ==
    /\ running
    /\ running' = FALSE
    /\ \E atPeek \in BOOLEAN : cout' = IF atPeek THEN cout \o prompt ELSE cout
    /\ UNCHANGED <<global_env, heap, log, binaryOrder, signedOverflow, ONLINE_JUDGE, walk>>

Init ==
    /\ global_env = empty
    /\ heap = [cells |-> <<>>, pairs |-> <<>>]
    /\ cout = <<>>
    /\ running = TRUE
    /\ log = <<>>
    /\ binaryOrder \in {"rand1 first", "rand2 first"}
    /\ signedOverflow \in {"wraps", "traps"}
    /\ ONLINE_JUDGE \in BOOLEAN
    /\ walk = noWalk

-----------------------------------------------------------------------------
(* Top-level forms the sessions are made of *)

S(x) == SymbolSyntax(x)

N(n) == Number(n)

L(stxs) == List(stxs)

\* (define x 7)
DefineX == L(<<S("define"), S("x"), N(7)>>)

\* x
RefX == S("x")

\* (define (fact n) (if (= n 0) 1 (* n (fact (- n 1)))))
DefineFact ==
    L(<<S("define"), L(<<S("fact"), S("n")>>),
        L(<<S("if"), L(<<S("="), S("n"), N(0)>>), N(1),
            L(<<S("*"), S("n"),
                L(<<S("fact"), L(<<S("-"), S("n"), N(1)>>)>>)>>)>>)>>)

\* (fact 5)
CallFact == L(<<S("fact"), N(5)>>)

\* (car (quote ()))
CarNil == L(<<S("car"), L(<<S("quote"), L(<<>>)>>)>>)

\* (car)
CarNoOperand == L(<<S("car")>>)

\* (exit)
ExitForm == L(<<S("exit")>>)

\* (begin (display 1) (exit))
DisplayExit == L(<<S("begin"), L(<<S("display"), N(1)>>), L(<<S("exit")>>)>>)

\* (begin (display 1) (car (quote ())))
DisplayCarNil == L(<<S("begin"), L(<<S("display"), N(1)>>), CarNil>>)

\* (set! y 5)
SetY == L(<<S("set!"), S("y"), N(5)>>)

\* (let ((x 1)) (set! y 2))
LetSetY ==
    L(<<S("let"), L(<<L(<<S("x"), N(1)>>)>>), L(<<S("set!"), S("y"), N(2)>>)>>)

\* (let ((x 1)) (begin (set! x 2) x))
LetSetX ==
    L(<<S("let"), L(<<L(<<S("x"), N(1)>>)>>),
        L(<<S("begin"), L(<<S("set!"), S("x"), N(2)>>), S("x")>>)>>)

\* (+ 1 (* 2 3))
Sum == L(<<S("+"), N(1), L(<<S("*"), N(2), N(3)>>)>>)

\* (cons 1 2)
ConsForm == L(<<S("cons"), N(1), N(2)>>)

SessionForms ==
    {DefineX, RefX, DefineFact, CallFact, CarNil, CarNoOperand, ExitForm,
     DisplayExit, DisplayCarNil, SetY, LetSetY, LetSetX, Sum, ConsForm}

\* a session of at most max forms drawn from forms, ended by the end of input
Session(forms, max) ==
    \/ \E stx \in forms : Len(log) < max /\ REPLStep(stx)
    \/ EndOfInput

Next == Session(SessionForms, MaxForms)

Spec == Init /\ [][Next]_vars

-----------------------------------------------------------------------------
(* Properties of the driver and of define and set! at top level *)

\* std::cout as it was when the i-th form was read
outBefore(i) == IF i = 1 THEN <<>> ELSE log[i - 1].out

\* the i-th form evaluated to the Terminate value
terminated(i) == ~log[i].err /\ ~log[i].aborted /\ log[i].v = TerminateV

\* names a form may refer to
Names == {"x", "y", "n", "fact"}

\* C1: once (define x 7) or (define (fact n) ...) has evaluated without
\* error, a later form of the session that refers to the name gets the
\* defined value: x is 7 and (fact 5) is 120, not an error.
C1_DefinedNameResolves ==
    \A i, j \in 1 .. Len(log) :
        i < j /\ ~log[i].err =>
            /\ (log[i].stx = DefineX /\ log[j].stx = RefX
                    => ~log[j].err /\ log[j].v = IntegerV(7))
            /\ (log[i].stx = DefineFact /\ log[j].stx = CallFact
                    => ~log[j].err /\ log[j].v = IntegerV(120))

C3_TerminateStopsLoop ==
    \A i \in 1 .. Len(log) :
        terminated(i) =>
            /\ i = Len(log)
            /\ ~running
            /\ log[i].out = log[i].evalOut
            /\ cout = log[i].out
            /\ (log[i].stx = ExitForm => cout = outBefore(i) \o prompt)

\* (exit) read after a form whose value was shown
C3_Witness ==
    /\ Len(log) = 2
    /\ log[1].stx = Sum /\ ~log[1].err
    /\ log[2].stx = ExitForm /\ terminated(2)
    /\ ~running

-----------------------------------------------------------------------------
(* Sessions that replay the examples of reference capture and pair aliasing *)

\* (define f (lambda () x))
DefineF == L(<<S("define"), S("f"), L(<<S("lambda"), L(<<>>), S("x")>>)>>)

\* (set! x 9)
SetX == L(<<S("set!"), S("x"), N(9)>>)

\* (f)
CallF == L(<<S("f")>>)

\* (let ((x 7)) (let ((f (lambda () x))) (begin (set! x 9) (f))))
LetClosure ==
    L(<<S("let"), L(<<L(<<S("x"), N(7)>>)>>),
        L(<<S("let"), L(<<L(<<S("f"), L(<<S("lambda"), L(<<>>), S("x")>>)>>)>>),
            L(<<S("begin"), SetX, CallF>>)>>)>>)

\* (define p (cons 1 2))
DefineP == L(<<S("define"), S("p"), ConsForm>>)

\* (define q p)
DefineQ == L(<<S("define"), S("q"), S("p")>>)

\* (set-car! q 99)
SetCarQ == L(<<S("set-car!"), S("q"), N(99)>>)

\* (car p)
CarP == L(<<S("car"), S("p")>>)

\* (let ((p (cons 1 2))) (let ((q p)) (begin (set-car! q 99) (car p))))
LetAliasCar ==
    L(<<S("let"), L(<<L(<<S("p"), ConsForm>>)>>),
        L(<<S("let"), L(<<L(<<S("q"), S("p")>>)>>),
            L(<<S("begin"), SetCarQ, CarP>>)>>)>>)

\* (let ((p (cons 1 2))) (let ((q p)) (begin (set-cdr! p 98) (cdr q))))
LetAliasCdr ==
    L(<<S("let"), L(<<L(<<S("p"), ConsForm>>)>>),
        L(<<S("let"), L(<<L(<<S("q"), S("p")>>)>>),
            L(<<S("begin"), L(<<S("set-cdr!"), S("p"), N(98)>>),
                L(<<S("cdr"), S("q")>>)>>)>>)>>)

\* (let ((p (cons 1 2))) (set-car! p 99))
LetSetCar ==
    L(<<S("let"), L(<<L(<<S("p"), ConsForm>>)>>), L(<<S("set-car!"), S("p"), N(99)>>)>>)

ClosureForms == {DefineX, DefineF, SetX, CallF, LetClosure}

NextClosure == Session(ClosureForms, MaxExampleForms)

SpecClosure == Init /\ [][NextClosure]_vars

AliasForms == {DefineP, DefineQ, SetCarQ, CarP, LetAliasCar, LetAliasCdr, LetSetCar}

NextAlias == Session(AliasForms, MaxExampleForms)

SpecAlias == Init /\ [][NextAlias]_vars

\* the first forms of the session are exactly these, in this order
sessionStarts(stxs) ==
    /\ Len(log) >= Len(stxs)
    /\ \A i \in 1 .. Len(stxs) : log[i].stx = stxs[i]

\* the i-th form of the session had the value v shown
shown(i, v) == ~log[i].err /\ ~log[i].aborted /\ log[i].v = v

\* C5: a procedure sees a set! made to a captured variable after the lambda
\* was evaluated: after (define x 7), (define f (lambda () x)) and (set! x 9)
\* the call (f) returns 9, and so does the same sequence with x and f bound
\* by let inside one form.
C5_ClosureSeesSetBang ==
    /\ (sessionStarts(<<DefineX, DefineF, SetX, CallF>>) => shown(4, IntegerV(9)))
    /\ \A i \in 1 .. Len(log) : log[i].stx = LetClosure => shown(i, IntegerV(9))

\* the part of C5 that does not go through define: x and f bound by let
C5_LetBoundClosureSeesSetBang ==
    \A i \in 1 .. Len(log) : log[i].stx = LetClosure => shown(i, IntegerV(9))

\* C6: two variables that hold the same pair cell see each other's set-car!
\* and set-cdr!, and the mutating call returns Void: after
\* (define p (cons 1 2)), (define q p) and (set-car! q 99), which shows
\* Void, (car p) returns 99; the same holds with p and q bound by let.
C6_PairsSharedByReference ==
    /\ (sessionStarts(<<DefineP, DefineQ, SetCarQ, CarP>>)
            => shown(3, VoidV) /\ shown(4, IntegerV(99)))
    /\ \A i \in 1 .. Len(log) :
          /\ (log[i].stx = LetAliasCar => shown(i, IntegerV(99)))
          /\ (log[i].stx = LetAliasCdr => shown(i, IntegerV(98)))
          /\ (log[i].stx = LetSetCar => shown(i, VoidV))

\* the part of C6 that does not go through define: p and q bound by let
C6_LetBoundPairsShared ==
    \A i \in 1 .. Len(log) :
        /\ (log[i].stx = LetAliasCar => shown(i, IntegerV(99)))
        /\ (log[i].stx = LetAliasCdr => shown(i, IntegerV(98)))
        /\ (log[i].stx = LetSetCar => shown(i, VoidV))

-----------------------------------------------------------------------------
(* letrec: placeholders, in-place patch, closures over the new frame *)

\* what a generated binding expression is, and what the body is
InitKinds == {"const", "a", "b", "lambda a", "lambda b"}

BodyKinds == {"a", "b", "(a)", "(b)"}

\* the expression of kind d; the constant is n
initSyntax(d, n) ==
    CASE d = "const" -> N(n)
      [] d = "a" -> S("a")
      [] d = "b" -> S("b")
      [] d = "lambda a" -> L(<<S("lambda"), L(<<>>), S("a")>>)
      [] d = "lambda b" -> L(<<S("lambda"), L(<<>>), S("b")>>)

bodySyntax(d) ==
    CASE d = "a" -> S("a")
      [] d = "b" -> S("b")
      [] d = "(a)" -> L(<<S("a")>>)
      [] d = "(b)" -> L(<<S("b")>>)

\* (letrec ((a e1) (b e2)) body), the constants being 1 for a and 2 for b
LetrecAB(d1, d2, body) ==
    L(<<S("letrec"),
        L(<<L(<<S("a"), initSyntax(d1, 1)>>), L(<<S("b"), initSyntax(d2, 2)>>)>>),
        bodySyntax(body)>>)

\* (- n 1)
Pred == L(<<S("-"), S("n"), N(1)>>)

\* (letrec ((even? (lambda (n) (if (= n 0) #t (odd? (- n 1)))))
\*          (odd?  (lambda (n) (if (= n 0) #f (even? (- n 1))))))
\*   (even? k))
EvenOdd(k) ==
    L(<<S("letrec"),
        L(<<L(<<S("even?"),
                L(<<S("lambda"), L(<<S("n")>>),
                    L(<<S("if"), L(<<S("="), S("n"), N(0)>>), TrueSyntax,
                        L(<<S("odd?"), Pred>>)>>)>>)>>),
            L(<<S("odd?"),
                L(<<S("lambda"), L(<<S("n")>>),
                    L(<<S("if"), L(<<S("="), S("n"), N(0)>>), FalseSyntax,
                        L(<<S("even?"), Pred>>)>>)>>)>>)>>),
        L(<<S("even?"), N(k)>>)>>)

EvenOddArgs == 0 .. 3

LetrecForms ==
    {LetrecAB(d1, d2, body) : d1 \in InitKinds, d2 \in InitKinds, body \in BodyKinds}
        \cup {EvenOdd(k) : k \in EvenOddArgs}

NextLetrec == Session(LetrecForms, MaxGeneratedForms)

SpecLetrec == Init /\ [][NextLetrec]_vars

\* what the binding expression of kind d must evaluate to when the frame is
\* the node frame: a sees the value val_a that a has been patched to (Null
\* while a is unpatched), b is still the placeholder while the expressions are
\* evaluated, and a lambda is a procedure over the frame itself
expectedInit(d, n, val_a, frame) ==
    CASE d = "const" -> IntegerV(n)
      [] d = "a" -> val_a
      [] d = "b" -> NullV
      [] d = "lambda a" -> ProcedureV(<<>>, Var("a"), frame)
      [] d = "lambda b" -> ProcedureV(<<>>, Var("b"), frame)

\* the outcome of the body of kind body when a and b ended as val_a and val_b:
\* calling a procedure reads its variable from the frame as it is at the
\* call, calling anything else is an error
expectedBody(body, val_a, val_b) ==
    LET called(val) ==
            IF val.t # "V_PROC" THEN [err |-> TRUE, v |-> VoidV]
            ELSE IF val.e = Var("a") THEN [err |-> FALSE, v |-> val_a]
            ELSE [err |-> FALSE, v |-> val_b]
    IN CASE body = "a" -> [err |-> FALSE, v |-> val_a]
         [] body = "b" -> [err |-> FALSE, v |-> val_b]
         [] body = "(a)" -> called(val_a)
         [] body = "(b)" -> called(val_b)

\* every generated form with what it is made of
LetrecCases ==
    {[stx |-> LetrecAB(d1, d2, body), d1 |-> d1, d2 |-> d2, body |-> body] :
        d1 \in InitKinds, d2 \in InitKinds, body \in BodyKinds}

\* C7: in (letrec ((a e1) (b e2)) body) both names are bound to Null before
\* e1 is evaluated (e1 reads a or b as Null, not as an unbound name), a is
\* patched in place right after e1 (e2 reads a as the value of e1), the form
\* allocates exactly the two nodes of its frame, and a procedure made by e1
\* or e2 is closed over that frame and returns the final value of a or b
\* when the body calls it; the mutually recursive even?/odd? decide parity.
C7_LetrecFrame ==
    [][Len(log') = Len(log) + 1 =>
          LET done  == log'[Len(log')]
              base  == Len(heap.cells)
              frame == base + 2
              st    == [cells |-> heap'.cells, pairs |-> heap'.pairs]
          IN /\ \A c \in LetrecCases :
                   done.stx = c.stx =>
                      LET val_a == expectedInit(c.d1, 1, NullV, frame)
                          val_b == expectedInit(c.d2, 2, val_a, frame)
                          out   == expectedBody(c.body, val_a, val_b)
                      IN /\ heap'.cells = heap.cells \o
                                <<[x |-> "a", v |-> val_a, next |-> global_env],
                                  [x |-> "b", v |-> val_b, next |-> base + 1]>>
                         /\ done.err = out.err
                         /\ ~out.err => done.v = Render(out.v, st)
             /\ \A k \in EvenOddArgs :
                   done.stx = EvenOdd(k) =>
                      /\ ~done.err
                      /\ done.v = BooleanV(k % 2 = 0)
                      /\ heap'.cells[base + 1].x = "even?"
                      /\ heap'.cells[base + 1].v.t = "V_PROC"
                      /\ heap'.cells[base + 1].v.env = frame
                      /\ heap'.cells[base + 2].x = "odd?"
                      /\ heap'.cells[base + 2].v.t = "V_PROC"
                      /\ heap'.cells[base + 2].v.env = frame]_vars

\* even? and odd? have called each other down from 3, and both names hold
\* procedures closed over the frame that binds them
C7_Witness ==
    /\ Len(log) >= 1
    /\ log[Len(log)].stx = EvenOdd(3)
    /\ ~log[Len(log)].err
    /\ log[Len(log)].v = BooleanV(FALSE)
    /\ \E c \in 1 .. Len(heap.cells) :
          /\ heap.cells[c].x = "odd?"
          /\ heap.cells[c].v.t = "V_PROC"
          /\ heap.cells[c].v.env = c
          /\ find("even?", c, [cells |-> heap.cells]).t = "V_PROC"

-----------------------------------------------------------------------------
(* let: binding expressions are evaluated outside the new frame *)

\* what a generated binding expression of a let is, and what its body is
LetInitKinds == {"const", "x", "y", "(+ x 1)"}

LetBodyKinds == {"x", "y", "(cons x y)"}

letInitSyntax(d, n) ==
    CASE d = "const" -> N(n)
      [] d = "x" -> S("x")
      [] d = "y" -> S("y")
      [] d = "(+ x 1)" -> L(<<S("+"), S("x"), N(1)>>)

letBodySyntax(d) ==
    CASE d = "x" -> S("x")
      [] d = "y" -> S("y")
      [] d = "(cons x y)" -> L(<<S("cons"), S("x"), S("y")>>)

\* (let ((x e1) (y e2)) body), the constants being 3 for x and 4 for y
LetXY(d1, d2, body) ==
    L(<<S("let"),
        L(<<L(<<S("x"), letInitSyntax(d1, 3)>>), L(<<S("y"), letInitSyntax(d2, 4)>>)>>),
        letBodySyntax(body)>>)

\* stx itself, or (let ((x 1) (y 2)) stx)
Wrapped(outer, stx) ==
    IF outer THEN L(<<S("let"), L(<<L(<<S("x"), N(1)>>), L(<<S("y"), N(2)>>)>>), stx>>)
    ELSE stx

LetForms ==
    {Wrapped(outer, LetXY(d1, d2, body)) :
        outer \in BOOLEAN, d1 \in LetInitKinds, d2 \in LetInitKinds, body \in LetBodyKinds}

NextLet == Session(LetForms, MaxGeneratedForms)

SpecLet == Init /\ [][NextLet]_vars

\* x and y outside the let: 1 and 2 under the outer let, unbound at top level
outerValue(outer, name) ==
    IF ~outer THEN [err |-> TRUE, n |-> 0]
    ELSE [err |-> FALSE, n |-> IF name = "x" THEN 1 ELSE 2]

\* what a binding expression must evaluate to, read outside the let
expectedLetInit(outer, d, n) ==
    CASE d = "const" -> [err |-> FALSE, n |-> n]
      [] d = "x" -> outerValue(outer, "x")
      [] d = "y" -> outerValue(outer, "y")
      [] d = "(+ x 1)" -> [err |-> ~outer, n |-> outerValue(outer, "x").n + 1]

\* what the body must show with x and y bound to vx and vy
expectedLetBody(body, vx, vy) ==
    CASE body = "x" -> IntegerV(vx)
      [] body = "y" -> IntegerV(vy)
      [] body = "(cons x y)" -> [t |-> "V_PAIR", car |-> IntegerV(vx), cdr |-> IntegerV(vy)]

\* every generated form with what it is made of
LetCases ==
    {[stx |-> Wrapped(outer, LetXY(d1, d2, body)), outer |-> outer,
      d1 |-> d1, d2 |-> d2, body |-> body] :
        outer \in BOOLEAN, d1 \in LetInitKinds, d2 \in LetInitKinds, body \in LetBodyKinds}

\* C8: in (let ((x e1) (y e2)) body) both e1 and e2 are evaluated outside
\* the let: an x or y in them is the outer x or y (1 and 2 under an
\* enclosing let, an error where there is none), never the x or y of the
\* same let; the body sees both x and y bound to the values of e1 and e2.
C8_LetInitsInOuterEnv ==
    \A i \in 1 .. Len(log) :
        \A c \in LetCases :
            log[i].stx = c.stx =>
                LET vx == expectedLetInit(c.outer, c.d1, 3)
                    vy == expectedLetInit(c.outer, c.d2, 4)
                IN IF vx.err \/ vy.err THEN log[i].err
                   ELSE shown(i, expectedLetBody(c.body, vx.n, vy.n))

\* (let ((x 1) (y 2)) (let ((x 3) (y x)) y)) has been evaluated: y is the
\* outer x, 1, not the 3 bound just before it
C8_Witness ==
    /\ Len(log) >= 1
    /\ log[Len(log)].stx = Wrapped(TRUE, LetXY("const", "x", "y"))
    /\ shown(Len(log), IntegerV(1))

-----------------------------------------------------------------------------
(* and / or: left to right, short-circuit, operands with a visible effect *)

\* the values a generated operand may have
OperandKinds == {"#f", "#t", "0"}

operandSyntax(d) ==
    CASE d = "#f" -> FalseSyntax
      [] d = "#t" -> TrueSyntax
      [] d = "0" -> N(0)

operandValue(d) ==
    CASE d = "#f" -> BooleanV(FALSE)
      [] d = "#t" -> BooleanV(TRUE)
      [] d = "0" -> IntegerV(0)

\* the i-th operand: (begin (display i) v)
Operand(i, d) == L(<<S("begin"), L(<<S("display"), N(i)>>), operandSyntax(d)>>)

\* (and e1 ... en) / (or e1 ... en) with the operands of kinds ds
Connective(word, ds) == L(<<S(word)>> \o [i \in 1 .. Len(ds) |-> Operand(i, ds[i])])

OperandLists == UNION {[1 .. n -> OperandKinds] : n \in 0 .. MaxOperands}

\* (and #f (begin (display "y") 1))
AndExample ==
    L(<<S("and"), FalseSyntax,
        L(<<S("begin"), L(<<S("display"), StringSyntax("y")>>), N(1)>>)>>)

\* (or #f (begin (display "x") 1))
OrExample ==
    L(<<S("or"), FalseSyntax,
        L(<<S("begin"), L(<<S("display"), StringSyntax("x")>>), N(1)>>)>>)

BoolForms ==
    {Connective(word, ds) : word \in {"and", "or"}, ds \in OperandLists}
        \cup {AndExample, OrExample}

NextBool == Session(BoolForms, MaxGeneratedForms)

SpecBool == Init /\ [][NextBool]_vars

\* every generated form with its operands
AndCases == {[stx |-> Connective("and", ds), ds |-> ds] : ds \in OperandLists}

OrCases == {[stx |-> Connective("or", ds), ds |-> ds] : ds \in OperandLists}

\* the least index of ds whose kind satisfies decides, 0 when there is none
firstIndex(ds, decides(_)) ==
    IF \E i \in 1 .. Len(ds) : decides(ds[i])
    THEN CHOOSE i \in 1 .. Len(ds) : decides(ds[i]) /\ \A j \in 1 .. i - 1 : ~decides(ds[j])
    ELSE 0

\* what the operands 1 .. n write, in order
displayed(n) == [i \in 1 .. n |-> IntegerV(i)]

\* what the evaluation of the i-th form of the session wrote
written(i) == SubSeq(log[i].evalOut, Len(outBefore(i) \o prompt) + 1, Len(log[i].evalOut))

\* C9: (and e1 ... en) evaluates e1, e2, ... in this order and stops at the
\* first operand whose value is #f: it returns #f and the later operands
\* write nothing; with no #f operand every operand is evaluated once and
\* the value of the last one is returned, 0 counting as true; (and) is #t; (and #f (begin (display "y") 1)) is #f and writes nothing.
C9_AndShortCircuit ==
    \A i \in 1 .. Len(log) :
        /\ \A c \in AndCases :
              log[i].stx = c.stx =>
                 LET isFalse(d) == d = "#f"
                     k == firstIndex(c.ds, isFalse)
                     n == Len(c.ds)
                 IN /\ ~log[i].err
                    /\ written(i) = displayed(IF k > 0 THEN k ELSE n)
                    /\ log[i].v = IF k > 0 THEN BooleanV(FALSE)
                                  ELSE IF n = 0 THEN BooleanV(TRUE)
                                  ELSE operandValue(c.ds[n])
        /\ (log[i].stx = AndExample =>
               shown(i, BooleanV(FALSE)) /\ written(i) = <<>>)

\* (and (begin (display 1) #f) (begin (display 2) 0)): only the first
\* operand has written, the result is #f
C9_Witness ==
    /\ Len(log) >= 1
    /\ log[Len(log)].stx = Connective("and", <<"#f", "0">>)
    /\ shown(Len(log), BooleanV(FALSE))
    /\ written(Len(log)) = <<IntegerV(1)>>

\* C10: (or e1 ... en) evaluates e1, e2, ... in this order, each at most
\* once, and stops at the first operand whose value is not #f: it returns
\* that value and the later operands write nothing; when every operand is #f,
\* or there is none, every operand is evaluated once and the result is #f;
\* (or #f (begin (display "x") 1)) writes x once and is 1.
C10_OrShortCircuit ==
    \A i \in 1 .. Len(log) :
        /\ \A c \in OrCases :
              log[i].stx = c.stx =>
                 LET isTruthy(d) == d # "#f"
                     k == firstIndex(c.ds, isTruthy)
                     n == Len(c.ds)
                 IN /\ ~log[i].err
                    /\ written(i) = displayed(IF k > 0 THEN k ELSE n)
                    /\ log[i].v = IF k > 0 THEN operandValue(c.ds[k])
                                  ELSE BooleanV(FALSE)
        /\ (log[i].stx = OrExample =>
               shown(i, IntegerV(1)) /\ written(i) = <<Text("x")>>)

\* (or (begin (display 1) #f) (begin (display 2) 0)): both operands have
\* written, once each, the result is 0
C10_Witness ==
    /\ Len(log) >= 1
    /\ log[Len(log)].stx = Connective("or", <<"#f", "0">>)
    /\ shown(Len(log), IntegerV(0))
    /\ written(Len(log)) = <<IntegerV(1), IntegerV(2)>>

-----------------------------------------------------------------------------
(* The parser's resolution of a list's head symbol *)

\* (lambda (x) x)
Identity == L(<<S("lambda"), L(<<S("x")>>), S("x")>>)

\* ((lambda (car) (car 1)) (lambda (x) x))
ShadowByParameter ==
    L(<<L(<<S("lambda"), L(<<S("car")>>), L(<<S("car"), N(1)>>)>>), Identity>>)

\* (let ((car (lambda (x) x))) (car 1))
ShadowByLet ==
    L(<<S("let"), L(<<L(<<S("car"), Identity>>)>>), L(<<S("car"), N(1)>>)>>)

\* (letrec ((car (lambda (x) x))) (car 1))
ShadowByLetrec ==
    L(<<S("letrec"), L(<<L(<<S("car"), Identity>>)>>), L(<<S("car"), N(1)>>)>>)

\* (let ((if (lambda (a b c) c))) (if #t 1 2))
ShadowReservedWord ==
    L(<<S("let"),
        L(<<L(<<S("if"), L(<<S("lambda"), L(<<S("a"), S("b"), S("c")>>), S("c")>>)>>)>>),
        L(<<S("if"), TrueSyntax, N(1), N(2)>>)>>)

\* (define car (lambda (x) x))
DefineCar == L(<<S("define"), S("car"), Identity>>)

\* (car 1)
CallCar == L(<<S("car"), N(1)>>)

\* (let ((f (lambda (x) x))) (f 1)): the head is no primitive and no reserved word
LocalCall ==
    L(<<S("let"), L(<<L(<<S("f"), Identity>>)>>), L(<<S("f"), N(1)>>)>>)

ShadowForms ==
    {ShadowByParameter, ShadowByLet, ShadowByLetrec, ShadowReservedWord,
     DefineCar, CallCar, LocalCall}

NextShadow == Session(ShadowForms, MaxForms)

SpecShadow == Init /\ [][NextShadow]_vars

\* C11: a list whose head symbol is bound as a variable where it stands is an
\* application of that variable, also when the symbol names a primitive or a
\* reserved word: with car bound by a lambda parameter, a let or a letrec to
\* the identity procedure, (car 1) is 1; with if bound to a procedure that
\* returns its third argument, (if #t 1 2) is 2; after (define car ...),
\* (car 1) is 1.
C11_BoundHeadShadows ==
    \A i \in 1 .. Len(log) :
        /\ (log[i].stx \in {ShadowByParameter, ShadowByLet, ShadowByLetrec}
                => shown(i, IntegerV(1)))
        /\ (log[i].stx = ShadowReservedWord => shown(i, IntegerV(2)))
        /\ (log[i].stx = CallCar /\ \E j \in 1 .. i - 1 : log[j].stx = DefineCar
                => shown(i, IntegerV(1)))

-----------------------------------------------------------------------------
(* A head symbol that is unbound, no primitive and no reserved word *)

UnknownNames == {"foo", "f", "g"}

UnknownContexts ==
    {"top", "after display", "in lambda", "untaken branch", "bound at run time"}

\* (name 2)
UnknownCall(name) == L(<<S(name), N(2)>>)

\* the call (name 2) placed in a form
UnknownHead(context, name) ==
    CASE context = "top" -> UnknownCall(name)
      [] context = "after display" ->
            L(<<S("begin"), L(<<S("display"), N(1)>>), UnknownCall(name)>>)
      [] context = "in lambda" -> L(<<S("lambda"), L(<<>>), UnknownCall(name)>>)
      [] context = "untaken branch" ->
            L(<<S("if"), TrueSyntax, N(1), UnknownCall(name)>>)
      [] context = "bound at run time" ->
            L(<<S("let"), L(<<L(<<S(name), Identity>>)>>), UnknownCall(name)>>)

UnknownHeadCases ==
    {[stx |-> UnknownHead(context, name), context |-> context, name |-> name] :
        context \in UnknownContexts, name \in UnknownNames}

UnknownHeadForms == {c.stx : c \in UnknownHeadCases}

NextUnknownHead == Session(UnknownHeadForms, MaxGeneratedForms)

SpecUnknownHead == Init /\ [][NextUnknownHead]_vars

\* the parse of the i-th form of the session, in the environment REPL gives it
parsedForm(i) == parse(log[i].stx, global_env, [cells |-> heap.cells])

\* C12 as claimed: a form that holds a list whose head symbol is neither
\* bound, nor a primitive, nor a reserved word fails at parse time: it is
\* reported as RuntimeError and nothing of it is evaluated.
C12_UnknownHeadFailsToParse ==
    \A i \in 1 .. Len(log) :
        log[i].stx \in UnknownHeadForms =>
            /\ parsedForm(i).err
            /\ log[i].err
            /\ written(i) = <<>>

\* C12 as the code has it: a list whose head symbol is neither bound, nor a
\* primitive, nor a reserved word parses, without error, to the application
\* of the variable of that name to the parsed operands; RuntimeError comes
\* only when that application is evaluated while the name is unbound, after
\* what the form wrote before, and not at all when the application is not
\* evaluated or the name is bound by then.
C12_UnknownHeadIsApplication ==
    \A i \in 1 .. Len(log) :
        \A c \in UnknownHeadCases :
            log[i].stx = c.stx =>
                /\ parse(UnknownCall(c.name), global_env, [cells |-> heap.cells])
                      = Parsed(Apply(Var(c.name), <<Fixnum(2)>>))
                /\ ~parsedForm(i).err
                /\ CASE c.context = "top" -> log[i].err /\ written(i) = <<>>
                     [] c.context = "after display" ->
                            log[i].err /\ written(i) = <<IntegerV(1)>>
                     [] c.context = "in lambda" -> shown(i, [t |-> "V_PROC"])
                     [] c.context = "untaken branch" -> shown(i, IntegerV(1))
                     [] c.context = "bound at run time" -> shown(i, IntegerV(2))

\* (begin (display 1) (foo 2)) has written 1 and then failed
C12_Witness ==
    /\ Len(log) >= 1
    /\ log[Len(log)].stx = UnknownHead("after display", "foo")
    /\ log[Len(log)].err
    /\ written(Len(log)) = <<IntegerV(1)>>
    /\ ~parsedForm(Len(log)).err

-----------------------------------------------------------------------------
(* Fixed-arity primitives given a wrong number of operands *)

\* the number of operands each fixed-arity primitive takes
arityOf ==
    [name \in {"modulo", "expt", "cons", "set-car!", "set-cdr!", "eq?"} |-> 2]
    @@ [name \in {"not", "boolean?", "number?", "null?", "pair?", "procedure?",
                  "symbol?", "string?", "list?", "car", "cdr", "display"} |-> 1]
    @@ [name \in {"void", "exit"} |-> 0]

\* one operand too few, one too many
WrongCounts(name) == {n \in {arityOf[name] - 1, arityOf[name] + 1} : n >= 0}

\* (name (display 7) ... (display 7)) with n operands
BadCall(name, n) == L(<<S(name)>> \o [i \in 1 .. n |-> L(<<S("display"), N(7)>>)])

ArityContexts == {"top", "after effects", "in lambda", "untaken branch"}

\* the call placed in a form
InContext(context, call) ==
    CASE context = "top" -> call
      \* (let ((p (cons 1 2)) (x 1)) (begin (display 1) (set! x 2) (set-car! p 3) call))
      [] context = "after effects" ->
            L(<<S("let"),
                L(<<L(<<S("p"), L(<<S("cons"), N(1), N(2)>>)>>), L(<<S("x"), N(1)>>)>>),
                L(<<S("begin"), L(<<S("display"), N(1)>>), L(<<S("set!"), S("x"), N(2)>>),
                    L(<<S("set-car!"), S("p"), N(3)>>), call>>)>>)
      [] context = "in lambda" -> L(<<S("lambda"), L(<<>>), call>>)
      [] context = "untaken branch" -> L(<<S("if"), TrueSyntax, N(1), call>>)

ArityCalls ==
    UNION {{BadCall(name, n) : n \in WrongCounts(name)} : name \in DOMAIN arityOf}

ArityForms ==
    {InContext(context, call) : context \in ArityContexts, call \in ArityCalls}

NextArity == Session(ArityForms, MaxGeneratedForms)

SpecArity == Init /\ [][NextArity]_vars

\* C13: a fixed-arity primitive (modulo, expt, cons, set-car!, set-cdr!, eq?,
\* not, the type predicates, car, cdr, display, void, exit) applied to one
\* operand too few or one too many, at the top of a form or anywhere inside
\* it, makes the form fail at parse time: the form is reported as
\* RuntimeError and nothing of it is evaluated: it writes nothing before the
\* report and leaves every binding cell and pair cell as they were.
C13_WrongOperandCountFailsToParse ==
    [][(Len(log') = Len(log) + 1 /\ log'[Len(log')].stx \in ArityForms) =>
          /\ parse(log'[Len(log')].stx, global_env, [cells |-> heap.cells]).err
          /\ log'[Len(log')].err
          /\ log'[Len(log')].evalOut = cout \o prompt
          /\ cout' = cout \o prompt \o <<Text("RuntimeError"), Text("\n")>>
          /\ heap' = heap
          /\ global_env' = global_env
          /\ running']_vars

\* the form with (cons (display 7)) after a display, a set! and a set-car! has
\* been reported as an error and has written nothing
C13_Witness ==
    /\ Len(log) >= 1
    /\ log[Len(log)].stx = InContext("after effects", BadCall("cons", 1))
    /\ log[Len(log)].err
    /\ written(Len(log)) = <<>>
    /\ heap = [cells |-> <<>>, pairs |-> <<>>]

-----------------------------------------------------------------------------
(* cond with a clause whose test is the symbol else *)

\* the else clause: (else (begin (display 9) 99))
ElseClause ==
    L(<<S("else"), L(<<S("begin"), L(<<S("display"), N(9)>>), N(99)>>)>>)

\* (cond (t1 10) ... (tn n*10) (else ...)), the test ti being (begin (display i) v)
CondElse(ds) ==
    L(<<S("cond")>> \o [i \in 1 .. Len(ds) |-> L(<<Operand(i, ds[i]), N(10 * i)>>)]
        \o <<ElseClause>>)

CondElseCases == {[stx |-> CondElse(ds), ds |-> ds] : ds \in OperandLists}

CondElseForms == {c.stx : c \in CondElseCases}

NextCondElse == Session(CondElseForms, MaxGeneratedForms)

SpecCondElse == Init /\ [][NextCondElse]_vars

\* C19 as claimed: a cond with a clause whose test is the symbol else, else
\* not being bound, fails at parse time: the form is reported as RuntimeError
\* and no clause has been evaluated.
C19_CondElseFailsToParse ==
    \A i \in 1 .. Len(log) :
        log[i].stx \in CondElseForms =>
            /\ parsedForm(i).err
            /\ log[i].err
            /\ written(i) = <<>>

\* C19 as the code has it: a cond with a clause whose test is the symbol
\* else, else not being bound, parses without error, the test being the
\* variable else. The clauses before it are evaluated in order and the first
\* whose test is true gives the result; when none is, the lookup of else
\* raises RuntimeError at run time, after the earlier tests have been
\* evaluated, and the body of the else clause is never evaluated: else is no
\* catch-all.
C19_CondElseIsVariable ==
    \A i \in 1 .. Len(log) :
        \A c \in CondElseCases :
            log[i].stx = c.stx =>
                LET n == Len(c.ds)
                    k == firstIndex(c.ds, LAMBDA d : d # "#f")
                IN /\ ~parsedForm(i).err
                   /\ parsedForm(i).e.clauses[n + 1][1] = Var("else")
                   /\ written(i) = displayed(IF k > 0 THEN k ELSE n)
                   /\ IF k > 0 THEN shown(i, IntegerV(10 * k)) ELSE log[i].err

\* (cond ((begin (display 1) #f) 10) (else ...)) has written 1 and failed
C19_Witness ==
    /\ Len(log) >= 1
    /\ log[Len(log)].stx = CondElse(<<"#f">>)
    /\ log[Len(log)].err
    /\ written(Len(log)) = <<IntegerV(1)>>
    /\ ~parsedForm(Len(log)).err

-----------------------------------------------------------------------------
(* Arithmetic on Integer and Rational operands *)

\* the integers the generated forms are built from: both ends of int and
\* small numbers around zero
IntSamples == {INT_MIN, INT_MIN + 1, -6, -2, -1, 0, 1, 2, 3, INT_MAX - 1, INT_MAX}

\* (op a b) on two integer literals
BinaryOn(op, a, b) == L(<<S(op), N(a), N(b)>>)

DivideCases ==
    {[stx |-> BinaryOn("/", a, b), a |-> a, b |-> b] : a \in IntSamples, b \in IntSamples}

DivideForms == {c.stx : c \in DivideCases}

NextDivide == Session(DivideForms, MaxGeneratedForms)

SpecDivide == Init /\ [][NextDivide]_vars

\* b divides a
Divides(b, a) == \E q \in -(2 ^ IntBits) .. 2 ^ IntBits : q * b = a

\* C14: for Integers a and b, (/ a b) with b = 0 raises RuntimeError; with
\* b # 0 it returns the Integer a/b when b divides a, and otherwise a
\* Rational whose value is a/b.
C14_DivideIsExact ==
    \A i \in 1 .. Len(log) :
        \A c \in DivideCases :
            log[i].stx = c.stx =>
                IF c.b = 0 THEN log[i].err
                ELSE /\ ~log[i].err
                     /\ ~log[i].aborted
                     /\ IF Divides(c.b, c.a)
                        THEN log[i].v.t = "V_INT" /\ log[i].v.n * c.b = c.a
                        ELSE /\ log[i].v.t = "V_RATIONAL"
                             /\ log[i].v.denominator # 0
                             /\ log[i].v.numerator * c.b = c.a * log[i].v.denominator

-----------------------------------------------------------------------------
(* Integer +, - and * at the ends of int *)

\* the operands of the generated three-operand forms
FoldSamples == {INT_MIN, -1, 2, INT_MAX}

\* the exact result of op on a and b
exact(op, a, b) ==
    CASE op = "+" -> a + b
      [] op = "-" -> a - b
      [] op = "*" -> a * b

\* (op a b): the two-operand node; (op a b c): the variadic node, folded from the left
IntegerCases ==
    {[stx |-> BinaryOn(op, a, b), result |-> exact(op, a, b), fits |-> Fits(exact(op, a, b))] :
        op \in {"+", "-", "*"}, a \in IntSamples, b \in IntSamples}
    \cup
    {[stx |-> L(<<S(op), N(a), N(b), N(c)>>),
      result |-> exact(op, exact(op, a, b), c),
      fits |-> Fits(exact(op, a, b)) /\ Fits(exact(op, exact(op, a, b), c))] :
        op \in {"+", "-", "*"}, a \in FoldSamples, b \in FoldSamples, c \in FoldSamples}

IntegerForms == {c.stx : c \in IntegerCases}

NextInteger == Session(IntegerForms, MaxGeneratedForms)

SpecInteger == Init /\ [][NextInteger]_vars

\* C17: an Integer +, - or *, with two operands or more, whose exact result
\* (or an intermediate result of the fold) lies outside int is reported as
\* RuntimeError, never answered with a wrapped Integer; a result that fits
\* is returned exactly.
C17_OverflowIsReported ==
    \A i \in 1 .. Len(log) :
        \A c \in IntegerCases :
            log[i].stx = c.stx =>
                IF c.fits THEN shown(i, IntegerV(c.result)) ELSE log[i].err

-----------------------------------------------------------------------------
(* Comparisons of Integer and Rational operands *)

\* numeric literals: integers, and rationals num/den
NumericSamples ==
    {N(n) : n \in {INT_MIN, -1, 0, 2, INT_MAX}}
    \cup {RationalSyntax(num, den) : num \in {-3, 1, INT_MAX}, den \in {2, 3}}

\* (list (< a b) (= a b) (> a b) (<= a b) (>= a b))
Comparisons(a, b) ==
    L(<<S("list"), L(<<S("<"), a, b>>), L(<<S("="), a, b>>), L(<<S(">"), a, b>>),
        L(<<S("<="), a, b>>), L(<<S(">="), a, b>>)>>)

CompareForms == {Comparisons(a, b) : a \in NumericSamples, b \in NumericSamples}

NextCompare == Session(CompareForms, MaxGeneratedForms)

SpecCompare == Init /\ [][NextCompare]_vars

RECURSIVE shownList(_)
\* the list of the values vs as the driver shows it
shownList(vs) ==
    IF vs = <<>> THEN NullV
    ELSE [t |-> "V_PAIR", car |-> vs[1], cdr |-> shownList(Tail(vs))]

-----------------------------------------------------------------------------
(* expt *)

ExptBases == {INT_MIN, -11, -2, -1, 0, 1, 2, 3, 12, INT_MAX}

ExptExponents == {-1, 0, 1, 2, 3, 4, 5, IntBits - 2, IntBits - 1, IntBits}

\* a number no int equals, standing for every power that does not fit
TooLarge == 2 ^ IntBits

RECURSIVE power(_, _)
\* b^e by repeated multiplication, or TooLarge once a product has left int
\* (from there on the magnitude only grows)
power(b, e) ==
    IF e = 0 THEN 1
    ELSE LET p == power(b, e - 1) IN
         IF p = TooLarge THEN TooLarge
         ELSE IF Fits(p * b) THEN p * b ELSE TooLarge

ExptCases ==
    {[stx |-> BinaryOn("expt", b, e), b |-> b, e |-> e] :
        b \in ExptBases, e \in ExptExponents}

\* (expt 1/2 2), (expt 2 1/2), (expt #t 2), (expt 2 "2")
ExptNonInteger ==
    {L(<<S("expt"), RationalSyntax(1, 2), N(2)>>),
     L(<<S("expt"), N(2), RationalSyntax(1, 2)>>),
     L(<<S("expt"), TrueSyntax, N(2)>>),
     L(<<S("expt"), N(2), StringSyntax("2")>>)}

ExptForms == {c.stx : c \in ExptCases} \cup ExptNonInteger

NextExpt == Session(ExptForms, MaxGeneratedForms)

SpecExpt == Init /\ [][NextExpt]_vars

\* C16: for Integers b and e, (expt b e) raises RuntimeError when e < 0 and
\* when b = 0 and e = 0; otherwise it returns exactly b^e when b^e is an int
\* and raises RuntimeError when it is not: never a wrapped value, never an
\* overflow report for a result that fits. An operand that is no Integer
\* raises RuntimeError.
C16_ExptExactOrError ==
    \A i \in 1 .. Len(log) :
        /\ ~log[i].aborted
        /\ (log[i].stx \in ExptNonInteger => log[i].err)
        /\ \A c \in ExptCases :
              log[i].stx = c.stx =>
                  IF c.e < 0 \/ (c.b = 0 /\ c.e = 0) THEN log[i].err
                  ELSE IF power(c.b, c.e) = TooLarge THEN log[i].err
                  ELSE shown(i, IntegerV(power(c.b, c.e)))

\* (expt 2 IntBits-1), one more than INT_MAX, has been reported as an error
C16_Witness ==
    /\ Len(log) >= 1
    /\ log[Len(log)].stx = BinaryOn("expt", 2, IntBits - 1)
    /\ log[Len(log)].err
    /\ power(2, IntBits - 1) = TooLarge
    /\ power(-2, IntBits - 1) = INT_MIN

-----------------------------------------------------------------------------
(* Comparisons and the order of the numbers *)

\* (/ a b)
Quotient(a, b) == BinaryOn("/", a, b)

\* numeric operands with the number num/den each stands for: integers,
\* rational literals, and quotients whose divisor is negative
OrderedOperands ==
    {[stx |-> N(n), num |-> n, den |-> 1] : n \in {-1, 0, 1}}
    \cup {[stx |-> RationalSyntax(n, 2), num |-> n, den |-> 2] : n \in {-1, 1}}
    \cup {[stx |-> Quotient(n, d), num |-> n, den |-> d] : n \in {-1, 1}, d \in {-2, 2}}

OrderCases ==
    {[stx |-> Comparisons(a.stx, b.stx), a |-> a, b |-> b] :
        a \in OrderedOperands, b \in OrderedOperands}

OrderForms == {c.stx : c \in OrderCases}

NextOrder == Session(OrderForms, MaxGeneratedForms)

SpecOrder == Init /\ [][NextOrder]_vars

\* a.num/a.den < b.num/b.den, both denominators nonzero
lessThan(a, b) ==
    IF a.den * b.den > 0 THEN a.num * b.den < b.num * a.den
    ELSE a.num * b.den > b.num * a.den

\* C22: for numeric operands with nonzero denominators, <, =, >, <= and >=
\* answer as the order of the numbers has it, also when a Rational has a
\* negative denominator: (/ 1 -2) is less than 0.
C22_ComparisonsFollowOrder ==
    \A i \in 1 .. Len(log) :
        \A c \in OrderCases :
            log[i].stx = c.stx =>
                LET lt == lessThan(c.a, c.b)
                    gt == lessThan(c.b, c.a)
                IN shown(i, shownList(<<BooleanV(lt), BooleanV(~lt /\ ~gt), BooleanV(gt),
                                        BooleanV(~gt), BooleanV(~lt)>>))

-----------------------------------------------------------------------------
(* Denominators of the rationals the arithmetic produces *)

\* a power of two whose square is 0 modulo 2^IntBits
HalfWord == 2 ^ ((IntBits + 1) \div 2)

\* operands with nonzero denominators; zero is a zero divisor
RationalOperands ==
    {[stx |-> N(n), zero |-> n = 0] : n \in {0, 2, HalfWord}}
    \cup {[stx |-> RationalSyntax(n, d), zero |-> n = 0] :
              n \in {0, 1}, d \in {3, HalfWord}}

\* (op a b) and (op a b c)
RationalCases ==
    {[stx |-> L(<<S(op), a.stx, b.stx>>), op |-> op, zeroDivisor |-> b.zero] :
        op \in {"+", "-", "*", "/"}, a \in RationalOperands, b \in RationalOperands}
    \cup
    {[stx |-> L(<<S(op), a.stx, b.stx, c.stx>>), op |-> op,
      zeroDivisor |-> b.zero \/ c.zero] :
        op \in {"*", "/"},
        a \in {r \in RationalOperands : r.stx = RationalSyntax(1, 3)},
        b \in RationalOperands, c \in RationalOperands}

RationalForms == {c.stx : c \in RationalCases}

NextRational == Session(RationalForms, MaxGeneratedForms)

SpecRational == Init /\ [][NextRational]_vars

\* C23: a Rational that +, -, * or /, with two operands or more, produces
\* from operands with nonzero denominators has a nonzero denominator, the
\* products being taken modulo 2^IntBits, and a division by a zero operand
\* is reported as RuntimeError.
C23_DenominatorsNonzero ==
    \A i \in 1 .. Len(log) :
        \A c \in RationalCases :
            log[i].stx = c.stx =>
                /\ ~log[i].aborted
                /\ (c.op = "/" /\ c.zeroDivisor => log[i].err)
                /\ (log[i].v.t = "V_RATIONAL" => log[i].v.denominator # 0)

-----------------------------------------------------------------------------
(* quote *)

\* literals, and symbols that are unbound, a primitive, a reserved word
QuoteAtoms ==
    {N(1), RationalSyntax(1, 2), StringSyntax("s"), TrueSyntax, FalseSyntax,
     S("x"), S("car"), S("if")}

\* lists of atoms, the empty list among them
QuoteFlatLists ==
    UNION {[1 .. n -> {N(1), S("x"), S("display")}] : n \in 0 .. MaxOperands}

\* lists of lists: (), (display 1), (x (car))
QuoteNestedLists ==
    UNION {[1 .. n -> {L(<<>>), L(<<S("display"), N(1)>>),
                       L(<<S("x"), L(<<S("car")>>)>>)}] : n \in 1 .. MaxOperands}

\* lists that would fail, write, bind or leave the loop if they were evaluated:
\* (exit), (/ 1 0), (set! x 1), (define x 1), (car), (quote x), (1 2)
QuoteHazards ==
    {L(<<S("exit")>>), L(<<S("/"), N(1), N(0)>>), L(<<S("set!"), S("x"), N(1)>>),
     L(<<S("define"), S("x"), N(1)>>), L(<<S("car")>>), L(<<S("quote"), S("x")>>),
     L(<<N(1), N(2)>>)}

QuotePayloads ==
    QuoteAtoms \cup {L(stxs) : stxs \in QuoteFlatLists \cup QuoteNestedLists}
        \cup QuoteHazards

\* (quote X)
Quoted(X) == L(<<S("quote"), X>>)

QuoteCases == {[stx |-> Quoted(X), X |-> X] : X \in QuotePayloads}

QuoteForms == {c.stx : c \in QuoteCases}

NextQuote == Session(QuoteForms, MaxGeneratedForms)

SpecQuote == Init /\ [][NextQuote]_vars

RECURSIVE datum(_)
\* the value that has the structure of the syntax X, as the driver shows it
datum(X) ==
    CASE X.s = "Number" -> IntegerV(X.n)
      [] X.s = "RationalSyntax" -> RationalV(X.numerator, X.denominator)
      [] X.s = "StringSyntax" -> StringV(X.x)
      [] X.s = "SymbolSyntax" -> SymbolV(X.x)
      [] X.s = "TrueSyntax" -> BooleanV(TRUE)
      [] X.s = "FalseSyntax" -> BooleanV(FALSE)
      [] X.s = "List" -> shownList([i \in 1 .. Len(X.stxs) |-> datum(X.stxs[i])])

RECURSIVE listElements(_)
\* the number of list elements in X, at every depth: one pair is built for each
listElements(X) ==
    IF X.s # "List" THEN 0
    ELSE LET counts == [i \in 1 .. Len(X.stxs) |-> 1 + listElements(X.stxs[i])]
             sum[i \in 0 .. Len(counts)] == IF i = 0 THEN 0 ELSE sum[i - 1] + counts[i]
         IN sum[Len(counts)]

\* C18: (quote X), for a literal, a symbol or a list X, returns the value
\* with the structure of X: a list is the chain of pairs of its elements in
\* order ended by Null, the empty list is Null, a symbol is a Symbol value;
\* nothing in X is evaluated: no unbound symbol of X is an error, nothing is
\* written, no binding is made or changed, the loop goes on, and the only
\* cells built are the pairs of the lists of X.
C18_QuoteRoundTrip ==
    [][\A c \in QuoteCases :
          (Len(log') = Len(log) + 1 /\ log'[Len(log')].stx = c.stx) =>
              /\ ~log'[Len(log')].err
              /\ ~log'[Len(log')].aborted
              /\ log'[Len(log')].v = datum(c.X)
              /\ log'[Len(log')].evalOut = cout \o prompt
              /\ running'
              /\ global_env' = global_env
              /\ heap'.cells = heap.cells
              /\ Len(heap'.pairs) = Len(heap.pairs) + listElements(c.X)
              /\ SubSeq(heap'.pairs, 1, Len(heap.pairs)) = heap.pairs]_vars

\* (quote ((display 1) ())) has been shown as a list of two lists, and
\* nothing was written
C18_Witness ==
    /\ Len(log) >= 1
    /\ log[Len(log)].stx = Quoted(L(<<L(<<S("display"), N(1)>>), L(<<>>)>>))
    /\ shown(Len(log), shownList(<<shownList(<<SymbolV("display"), IntegerV(1)>>), NullV>>))
    /\ written(Len(log)) = <<>>

-----------------------------------------------------------------------------
(* Frames: a binding form adds bindings and changes none *)

Binders == {"let", "letrec", "application"}

BoundNames == {"x", "y", "z"}

InnerBodies == {"read", "set x", "set y"}

innerBodySyntax(body, name) ==
    CASE body = "read" -> S(name)
      [] body = "set x" -> L(<<S("set!"), S("x"), N(3)>>)
      [] body = "set y" -> L(<<S("set!"), S("y"), N(3)>>)

\* (let ((name 7)) body), (letrec ((name 7)) body), ((lambda (name) body) 7)
Binding(binder, name, body) ==
    CASE binder = "let" ->
            L(<<S("let"), L(<<L(<<S(name), N(7)>>)>>), innerBodySyntax(body, name)>>)
      [] binder = "letrec" ->
            L(<<S("letrec"), L(<<L(<<S(name), N(7)>>)>>), innerBodySyntax(body, name)>>)
      [] binder = "application" ->
            L(<<L(<<S("lambda"), L(<<S(name)>>), innerBodySyntax(body, name)>>), N(7)>>)

\* (let ((x 1) (y 5))
\*   (let ((f (lambda () x)) (g (lambda () y)))
\*     (begin inner (list x y (f) (g)))))
Enclosed(inner) ==
    L(<<S("let"), L(<<L(<<S("x"), N(1)>>), L(<<S("y"), N(5)>>)>>),
        L(<<S("let"),
            L(<<L(<<S("f"), L(<<S("lambda"), L(<<>>), S("x")>>)>>),
                L(<<S("g"), L(<<S("lambda"), L(<<>>), S("y")>>)>>)>>),
            L(<<S("begin"), inner,
                L(<<S("list"), S("x"), S("y"), L(<<S("f")>>), L(<<S("g")>>)>>)>>)>>)>>)

FrameCases ==
    {[stx |-> Enclosed(Binding(binder, name, body)), name |-> name, body |-> body] :
        binder \in Binders, name \in BoundNames, body \in InnerBodies}

FrameForms == {c.stx : c \in FrameCases}

NextFrames == Session(FrameForms, MaxGeneratedForms)

SpecFrames == Init /\ [][NextFrames]_vars

\* C20: a let, a letrec or a procedure application that binds a name, the
\* name of an enclosing binding or a new one, leaves every binding of the
\* enclosing environment as it was, for the enclosing code and for the
\* closures that captured that environment: after it returns, x and y, read
\* directly and through the closures f and g, have the values they had,
\* except the one a set! in the body changed, and a set! on the name the
\* form itself binds changes the new binding only.
C20_ExtensionIsAdditive ==
    \A i \in 1 .. Len(log) :
        \A c \in FrameCases :
            log[i].stx = c.stx =>
                LET x == IF c.body = "set x" /\ c.name # "x" THEN 3 ELSE 1
                    y == IF c.body = "set y" /\ c.name # "y" THEN 3 ELSE 5
                IN shown(i, shownList(<<IntegerV(x), IntegerV(y), IntegerV(x), IntegerV(y)>>))

\* ((lambda (x) (set! x 3)) 7) inside the bindings of x and y: the enclosing
\* x is still 1, also for the closure f
C20_Witness ==
    /\ Len(log) >= 1
    /\ log[Len(log)].stx = Enclosed(Binding("application", "x", "set x"))
    /\ shown(Len(log), shownList(<<IntegerV(1), IntegerV(5), IntegerV(1), IntegerV(5)>>))

-----------------------------------------------------------------------------
(* (exit) inside a form *)

\* (display 1)
Display1 == L(<<S("display"), N(1)>>)

\* (begin (exit) (display "x"))
ExitThenDisplay == L(<<S("begin"), ExitForm, L(<<S("display"), StringSyntax("x")>>)>>)

\* forms that evaluate (exit) somewhere, what they write, and whether their
\* own value is Terminate
ExitCases ==
    {\* (begin (exit) (display "x"))
     [stx |-> ExitThenDisplay, written |-> <<Text("x")>>, stops |-> FALSE],
     \* (begin (display 1) (exit))
     [stx |-> DisplayExit, written |-> <<IntegerV(1)>>, stops |-> TRUE],
     \* (begin (exit) (display 1) (exit))
     [stx |-> L(<<S("begin"), ExitForm, Display1, ExitForm>>),
      written |-> <<IntegerV(1)>>, stops |-> TRUE],
     \* (if (exit) (display 1) (display 2))
     [stx |-> L(<<S("if"), ExitForm, Display1, L(<<S("display"), N(2)>>)>>),
      written |-> <<IntegerV(1)>>, stops |-> FALSE],
     \* (let ((x (exit))) (display 1))
     [stx |-> L(<<S("let"), L(<<L(<<S("x"), ExitForm>>)>>), Display1>>),
      written |-> <<IntegerV(1)>>, stops |-> FALSE],
     \* ((lambda (x) (display 1)) (exit))
     [stx |-> L(<<L(<<S("lambda"), L(<<S("x")>>), Display1>>), ExitForm>>),
      written |-> <<IntegerV(1)>>, stops |-> FALSE],
     \* ((lambda (x) x) (exit))
     [stx |-> L(<<Identity, ExitForm>>), written |-> <<>>, stops |-> TRUE],
     \* (and (exit) (display 1))
     [stx |-> L(<<S("and"), ExitForm, Display1>>),
      written |-> <<IntegerV(1)>>, stops |-> FALSE],
     \* (cons (exit) (display 1))
     [stx |-> L(<<S("cons"), ExitForm, Display1>>),
      written |-> <<IntegerV(1)>>, stops |-> FALSE],
     \* (car (cons (exit) (display 1)))
     [stx |-> L(<<S("car"), L(<<S("cons"), ExitForm, Display1>>)>>),
      written |-> <<IntegerV(1)>>, stops |-> TRUE],
     \* (exit)
     [stx |-> ExitForm, written |-> <<>>, stops |-> TRUE],
     \* (display 1)
     [stx |-> Display1, written |-> <<IntegerV(1)>>, stops |-> FALSE]}

ExitForms == {c.stx : c \in ExitCases}

NextExit == Session(ExitForms, MaxGeneratedForms + 1)

SpecExit == Init /\ [][NextExit]_vars

\* C24: only the value of the whole form stops the loop. A form that
\* evaluates (exit) at a place that is not its own value goes on: what comes
\* after (exit) in the form is evaluated and writes, the value is shown and
\* the loop reads the next form; the loop stops after a form exactly when the
\* form's value is Terminate, and then the effects that came before are kept
\* and nothing is shown.
C24_OnlyTheFormValueStops ==
    [][\A c \in ExitCases :
          (Len(log') = Len(log) + 1 /\ log'[Len(log')].stx = c.stx) =>
              /\ ~log'[Len(log')].err
              /\ ~log'[Len(log')].aborted
              /\ log'[Len(log')].evalOut = cout \o prompt \o c.written
              /\ (log'[Len(log')].v = TerminateV) = c.stops
              /\ running' = ~c.stops
              /\ IF c.stops THEN cout' = cout \o prompt \o c.written
                 ELSE /\ Len(cout') = Len(cout \o prompt \o c.written) + 2
                      /\ cout'[Len(cout')] = Text("\n")]_vars

\* (begin (exit) (display "x")) has written x and the loop has taken a next form
C24_Witness ==
    /\ Len(log) = 2
    /\ log[1].stx = ExitThenDisplay
    /\ written(1) = <<Text("x")>>
    /\ shown(1, VoidV)
    /\ log[2].stx = Display1


-----------------------------------------------------------------------------
(* list? on the pairs that cons, set-car! and set-cdr! can build, with the *)
(* loop of IsList::evalRator taken one test of its condition at a time      *)

\* number of Pair cells allocated
MaxPairs == 2

\* the values handed to cons, set-cdr! and list?
ListValues == {NullV, IntegerV(1)} \cup {PairRef(a) : a \in 1..Len(heap.pairs)}

\* the store the primitives work on
listStore == [cells |-> heap.cells, pairs |-> heap.pairs, out |-> cout, aborted |-> FALSE]

\* (cons 0 cdr)
ConsStep(cdr) ==
    /\ walk = noWalk
    /\ Len(heap.pairs) < MaxPairs
    /\ heap' = [heap EXCEPT !.pairs = binaryRator("Cons", IntegerV(0), cdr, listStore).st.pairs]
    /\ UNCHANGED <<global_env, cout, running, log, binaryOrder, signedOverflow, ONLINE_JUDGE,
                   walk>>

\* (set-cdr! p v)
SetCdrStep(p, v) ==
    /\ walk = noWalk
    /\ p.t = "V_PAIR"
    /\ heap' = [heap EXCEPT !.pairs = binaryRator("SetCdr", p, v, listStore).st.pairs]
    /\ heap' # heap
    /\ UNCHANGED <<global_env, cout, running, log, binaryOrder, signedOverflow, ONLINE_JUDGE,
                   walk>>

\* (set-car! p p): a cycle that goes through a car only
SetCarStep(p) ==
    /\ walk = noWalk
    /\ p.t = "V_PAIR"
    /\ heap' = [heap EXCEPT !.pairs = binaryRator("SetCar", p, p, listStore).st.pairs]
    /\ heap' # heap
    /\ UNCHANGED <<global_env, cout, running, log, binaryOrder, signedOverflow, ONLINE_JUDGE,
                   walk>>

\* (list? rand) is called
IsListCall(rand) ==
    /\ walk = noWalk
    /\ walk' = isListEnter(rand)
    /\ UNCHANGED <<global_env, heap, cout, running, log, binaryOrder, signedOverflow,
                   ONLINE_JUDGE>>

\* the loop tests its condition once more
IsListLoop ==
    /\ walk.pc = "while"
    /\ walk' = isListLoop(walk, listStore)
    /\ UNCHANGED <<global_env, heap, cout, running, log, binaryOrder, signedOverflow,
                   ONLINE_JUDGE>>

\* the caller has the result
IsListReturn ==
    /\ walk.pc = "returned"
    /\ walk' = noWalk
    /\ UNCHANGED <<global_env, heap, cout, running, log, binaryOrder, signedOverflow,
                   ONLINE_JUDGE>>

NextList ==
    \/ \E cdr \in ListValues : ConsStep(cdr)
    \/ \E p \in ListValues, v \in ListValues : SetCdrStep(p, v)
    \/ \E p \in ListValues : SetCarStep(p)
    \/ \E rand \in ListValues : IsListCall(rand)
    \/ IsListLoop
    \/ IsListReturn

\* the process runs on its own: a loop whose condition can be tested is tested
SpecList == Init /\ [][NextList]_vars /\ WF_vars(IsListLoop)

RECURSIVE cdrAfter(_, _, _)
\* the value k cdr steps from v, or the first non-pair value met before that
cdrAfter(v, k, pairs) ==
    IF k = 0 \/ v.t # "V_PAIR" THEN v ELSE cdrAfter(pairs[v.a].cdr, k - 1, pairs)

\* a chain of distinct Pair cells has left them after as many steps as there are cells
chainEnd(v, pairs) == cdrAfter(v, Len(pairs), pairs)

\* the cdr chain from v never leaves the Pair cells
circular(v, pairs) == chainEnd(v, pairs).t = "V_PAIR"

\* C21: (list? v) returns #t when the cdr chain from v reaches Null and #f
\* when v is not a pair or the chain reaches another non-pair value (the
\* same value the evaluator's unary primitive gives); it returns only when
\* the chain is not circular; on a circular chain the loop is never left;
\* on a chain that is not circular the call returns.
C21_ListWalk ==
    /\ [](walk.pc = "returned" =>
            /\ ~circular(walk.rand, heap.pairs)
            /\ walk.result = BooleanV(chainEnd(walk.rand, heap.pairs).t = "V_NULL")
            /\ walk.result = unaryRator("IsList", walk.rand, listStore).v)
    /\ [][(walk.pc = "while" /\ circular(walk.rand, heap.pairs)) => walk'.pc = "while"]_vars
    /\ ((walk.pc = "while" /\ ~circular(walk.rand, heap.pairs)) ~> (walk.pc = "returned"))

\* two cells that set-cdr! has made each other's cdr, and the loop of
\* (list? p) has gone from the first to the second and is still in the loop
C21_Witness ==
    /\ Len(heap.pairs) = 2
    /\ heap.pairs[1].cdr = PairRef(2)
    /\ heap.pairs[2].cdr = PairRef(1)
    /\ walk.pc = "while"
    /\ walk.rand = PairRef(1)
    /\ walk.current = PairRef(2)
====
